---- MODULE Spec2Model ----
(***************************************************************************)
(* Motion execution core of TinyG2 (plan_exec.cpp): the group-aware        *)
(* forward planner mp_plan_move, the executor entry mp_exec_move and the   *)
(* aline executor mp_exec_aline with its head/body/tail section runners.   *)
(*                                                                         *)
(* Units.  Lengths are integers (a block is 24 or 48 units long), times     *)
(* are integers with NOM_SEGMENT time units per nominal segment and        *)
(* velocities are the integers 0, 2 and 4.  The values are chosen so that  *)
(* every division the code performs on them is exact.  fp_ZERO(x) is x = 0 *)
(* and fp_GE(a, b) is a >= b at this resolution.                           *)
(*                                                                         *)
(* Position.  The move runs along one axis with unit vector 1.  The code   *)
(* uses mr.position only in sums with lengths, so mr.position, mr.target   *)
(* and mr.waypoint are kept relative to the position at the new-move setup *)
(* of the move in flight.  The forward differences are not modelled: a     *)
(* segment that is not set to a waypoint advances by its nominal length    *)
(* (mean section velocity times segment time) less a rounding error of at  *)
(* most MaxDrift units.                                                    *)
(*                                                                         *)
(* __asm__("BKPT") stops the processor at the breakpoint: the variable     *)
(* halt records the source line and no routine runs afterwards.  A         *)
(* while(1) is recorded in halt the same way ("spin:<line>").              *)
(* _debug_trap() is empty in a release build and is modelled as a no-op.   *)
(***************************************************************************)
EXTENDS Integers, FiniteSets, Sequences, TLC

\* ---------------------------------------------------------------- bounds
PoolSize == 4          \* number of buffers in the planner ring
MaxMoves == 3          \* number of blocks the main loop queues in one run
MaxPrepFail == 1       \* number of st_prep_line failures injected in one run
MaxMovesLong == 4      \* number of alines queued in one run of SpecLong
MaxMovesHold == 2      \* number of alines queued in one run of SpecHold
MaxDrift == 1          \* largest rounding error of one integrated segment length
MaxSegments == 6       \* most segments of a forward-differenced section
MaxTime == 2           \* longest section time of a forward-differenced section
MaxEnds == 3           \* number of move ends in one run of SpecSnapshot
MaxStep == 1           \* largest step count kinematics or an encoder gives
MaxCalls == 4          \* number of segment runner calls in one run of SpecSteps
MaxHandlers == 3       \* number of digital input handlers
MaxPriority == 2       \* highest priority of a handler
MaxPins == 2           \* number of digital input pins

\* ------------------------------------------------------ program constants
MP_BUFFER_EMPTY == 0
MP_BUFFER_PREPPED == 1
MP_BUFFER_PLANNED == 2
MP_BUFFER_RUNNING == 3

GROUP_OFF == 0
GROUP_RAMPED == 1
GROUP_HEAD == 2
GROUP_BODY == 3
GROUP_TAIL == 4
GROUP_DONE == 5

NOM_SEGMENT == 16      \* NOM_SEGMENT_USEC, in model time units
MIN_SEGMENT_TIME == 8  \* half a nominal segment

BlockLens == {24, 48}  \* the lengths of the queued alines
Velocities == {0, 2, 4}
\* the cruise velocity and the velocity limits of every queued aline
VMAX == CHOOSE v \in Velocities : \A w \in Velocities : w <= v
TailLens == {24, 48}
\* the time of a ramp of length len between the velocities va and vb, and of
\* a cruise of length len at velocity v (the formulas of lines 116-117)
RampTime(len, va, vb) == (2 * len) \div (va + vb)
CruiseTime(len, v) == len \div v

Bufs == 0 .. (PoolSize - 1)
nx(i) == (i + 1) % PoolSize
pv(i) == (i + PoolSize - 1) % PoolSize
\* mr.segment_count is a uint32_t.  The model keeps the representative of
\* its value modulo 2^32 that lies in [-2^31, 2^31): 0 - 1 is kept as -1 and
\* stands for 4294967295, so an unsigned comparison reads a negative
\* representative as a value above every small constant.
U32Less(c, k) == c >= 0 /\ c < k
\* ceil(a / b) for b > 0
Ceil(a, b) == IF a > 0 THEN (a + b - 1) \div b ELSE 0 - ((0 - a) \div b)
\* (uint32_t) of the float segment count: a negative count saturates to 0
\* on the ARM target
ToU32(n) == IF n < 0 THEN 0 ELSE n
\* (time / segments) < MIN_SEGMENT_TIME in float arithmetic: 0/0 is NaN and
\* compares false, a negative time over 0 segments is -infinity
SegmentTimeTooShort(time, segments) ==
  IF segments > 0 THEN time < MIN_SEGMENT_TIME * segments
  ELSE IF segments = 0 THEN time < 0
  ELSE time > MIN_SEGMENT_TIME * segments

VARIABLES bufs, mb, mr, cm, halt, obs, fd, pl, sp, hl, io
vars == <<bufs, mb, mr, cm, halt, obs, fd, pl, sp, hl, io>>

\* ------------------------------------------------------------ data model
\* mpBuf_t after _clear_buffer (everything but the ring links zeroed)
ClearBuf(i) ==
  [ buffer_state |-> MP_BUFFER_EMPTY, move_type |-> "NULL", move_state |-> "OFF",
    length |-> 0, group_length |-> 0,
    cruise_vmax |-> 0, cruise_velocity |-> 0, exit_vmax |-> 0, exit_velocity |-> 0,
    plannable |-> TRUE, nx_group |-> nx(i), pv_group |-> pv(i) ]

\* mpBlockRuntimeBuf_t
ClearBlock ==
  [ head_length |-> 0, body_length |-> 0, tail_length |-> 0,
    head_time |-> 0, body_time |-> 0, tail_time |-> 0,
    cruise_velocity |-> 0, exit_velocity |-> 0, cruise_jerk |-> 0,
    exit_acceleration |-> 0, exit_jerk |-> 0,
    planned |-> FALSE ]

\* mpGroupRuntimeBuf_t
ClearGroup ==
  [ group_state |-> GROUP_OFF, first_block |-> 0, length |-> 0,
    head_length |-> 0, body_length |-> 0, tail_length |-> 0,
    completed_group_head_length |-> 0, completed_group_body_length |-> 0,
    cruise_velocity |-> 0, exit_velocity |-> 0, body_time |-> 0, tail_time |-> 0 ]

\* what one call of mp_exec_move or mp_plan_move did (history, not program
\* state); hold_in is the hold state the call found when the machine was in
\* a feedhold, motion_in the motion state it found, buf_in the
\* buffer_state of the run buffer it found when that is an aline, nx_in the
\* buffer_state of the buffer after the run buffer it found and nx_out the
\* one a call of mp_plan_move left, travel
\* the distance mr.position moved in the call, min_time that a section was
\* left for its segment time, freed that the run buffer was freed and
\* length_in the length of the running block before the merging of a new-move
\* setup.  emitted and section_time are kept from call to call: the number
\* of segments handed to st_prep_line since the section in flight was
\* entered and the time the section had when it was entered.  inv_r and
\* inv_p tell what _attempt_extension did for the running and the planning
\* group when only the exit velocity had risen and the new tail was not
\* shorter than the old one.  ext_seen is the branch ("tail" or "cruise") of
\* the last length extension _attempt_extension accepted in the call and
\* ext_bad the branch of one that did not leave the group as ExtensionKept
\* says.  rej tells why _attempt_extension could not apply a change to the
\* running group ("tail": a raised exit velocity in the tail, "tail_ext": a
\* length extension in the tail, "inversion": a tail that is not shorter) and
\* rej_bad that it then returned a flag still set or a changed group.
\* body_ext tells whether a length extension of the running group, found
\* while its body runs, "shrinks" or "keeps" the body.  swap holds what
\* new-move setup found before it moved the runtime pointers: whether the
\* running group was OFF, mr.p, the group pointers, the exit velocity of the
\* running group and the sums its completed counters take.  call_in is the
\* EndState at the entry of mp_exec_aline while the call runs; call_changed
\* tells that the call returned with another EndState, end_changed that
\* the status test of line 988 and what follows it changed the EndState the
\* section runner left, end_run_time the run_time_remaining it left.  frees
\* counts the calls of mp_free_run_buffer, free_empty is what the one of the
\* move end reported, cycle_end tells that cm_cycle_end was called, rewound
\* that the move end found the buffer back at MOVE_NEW.  accept is the group
\* of the last change _attempt_extension accepted in the call and accept_bad
\* what ObserveAccept found; accept_next tells that a change of the running
\* group found the next block PLANNED and the planning group at work
ClearObs ==
  [ op |-> "none", ret |-> "none", prep_calls |-> 0, prep_failed |-> FALSE,
    aline_ran |-> FALSE, setup |-> FALSE, seg_last |-> FALSE, block_last |-> FALSE,
    hold_in |-> "NONE", motion_in |-> "STOP", buf_in |-> -1, nx_in |-> -1, nx_out |-> -1, travel |-> 0, min_time |-> FALSE, freed |-> FALSE, length_in |-> -1, emitted |-> 0, section_time |-> 0, inv_r |-> "none", inv_p |-> "none", ext_seen |-> "none", ext_bad |-> "none", rej |-> "none", rej_bad |-> FALSE, body_ext |-> "none", calc_neg |-> FALSE, calc_called |-> FALSE,
    ext_running |-> FALSE, fails |-> 0,
    call_in |-> <<"OFF", "OFF", 0, GROUP_OFF, 0, 0, 0>>,
    call_changed |-> FALSE, end_changed |-> FALSE, end_run_time |-> 0,
    accept |-> "none", accept_bad |-> "none", accept_next |-> FALSE,
    promotions |-> 0, calls |-> 0, budget |-> 0, frees |-> 0, free_empty |-> FALSE, cycle_end |-> FALSE, rewound |-> FALSE,
    swap |-> [ off |-> FALSE, p |-> 0, r_group |-> 0, p_group |-> 0,
               exit_velocity |-> 0, body |-> 0, head |-> 0 ] ]

Machine == [ bufs |-> bufs, mb |-> mb, mr |-> mr, cm |-> cm, halt |-> halt, obs |-> obs ]

Ret(m, st) == [m EXCEPT !.obs.ret = st]
Halt(m, site) == [m EXCEPT !.halt = site]
NewCall(m, name) ==
  [m EXCEPT !.obs = [ClearObs EXCEPT !.op = name, !.fails = m.obs.fails,
                                     !.emitted = m.obs.emitted,
                                     !.section_time = m.obs.section_time,
                                     !.promotions = m.obs.promotions,
                                     !.calls = m.obs.calls,
                                     !.budget = m.obs.budget,
                                     !.hold_in = IF m.cm.motion_state = "HOLD"
                                                 THEN m.cm.hold_state ELSE "NONE",
                                     !.motion_in = m.cm.motion_state,
                                     !.buf_in = IF m.bufs[m.mb.r].move_type = "ALINE"
                                                THEN m.bufs[m.mb.r].buffer_state
                                                ELSE -1,
                                     !.nx_in = m.bufs[nx(m.mb.r)].buffer_state]]

\* the forward-difference registers before any section has set them
NoDiffs ==
  [ segments |-> 0, segment_count |-> 0, section_state |-> "OFF",
    v_0 |-> 0, v_1 |-> 0, a_0 |-> 0, a_1 |-> 0, j_0 |-> 0, j_1 |-> 0, T |-> 0,
    forward_diff_5 |-> 0, forward_diff_4 |-> 0, forward_diff_3 |-> 0,
    forward_diff_2 |-> 0, forward_diff_1 |-> 0,
    segment_velocity |-> 0, first_velocity |-> 0, sum_5 |-> 0, emitted |-> 0 ]

\* mp_plan_move taken statement by statement, with the words it shares with
\* the executor.  A word holds the number of the write it carries: the words
\* of mr.entry_* the number of the move end that wrote them (0 after
\* construction), the exit words of mr.r the number of the block runtime
\* mr.r points at.  state is the buffer_state of the queued buffers, run the
\* run buffer, moving tells that the executor is inside a move.  bk holds
\* the two block runtimes: buf the buffer whose plan mp_calculate_block
\* wrote last, part that only a part of that plan is written, planned the
\* flag of line 496; mr_p and mr_r are the pointers mr.p and mr.r, block
\* the planner's local pointer, and setup what the last new-move setup took
\* over as mr.r: the buffer it started, the buffer_state it found and the
\* block runtime as it was
NoPlanner ==
  [ pc |-> "idle", bf |-> 1, passed |-> <<>>,
    entry_velocity |-> 0, entry_acceleration |-> 0, entry_jerk |-> 0,
    mr_entry_velocity |-> 0, mr_entry_acceleration |-> 0, mr_entry_jerk |-> 0,
    r |-> 0, ends |-> 0, moving |-> FALSE, run |-> 1,
    state |-> [i \in 1 .. (MaxEnds + 1) |->
                 IF i <= MaxEnds THEN MP_BUFFER_PREPPED ELSE MP_BUFFER_EMPTY],
    bk |-> [b \in 0 .. 1 |-> [buf |-> 0, part |-> FALSE, planned |-> FALSE]],
    mr_p |-> 0, mr_r |-> 1, block |-> 0,
    setup |-> [buffer |-> 0, buffer_state |-> MP_BUFFER_EMPTY,
               buf |-> 0, part |-> FALSE, planned |-> FALSE] ]

\* the motors of the step pipeline (line 1587)
MOTORS == 2

\* the step pipeline of the runtime after construction (all zero); emitted
\* counts the segments st_prep_line accepted, computed holds the
\* target_steps of the last three of them, newest first
NoSteps ==
  [ target_steps |-> [i \in 1 .. MOTORS |-> 0],
    position_steps |-> [i \in 1 .. MOTORS |-> 0],
    commanded_steps |-> [i \in 1 .. MOTORS |-> 0],
    encoder_steps |-> [i \in 1 .. MOTORS |-> 0],
    following_error |-> [i \in 1 .. MOTORS |-> 0],
    travel_steps |-> [i \in 1 .. MOTORS |-> 0],
    en_read_encoder |-> [i \in 1 .. MOTORS |-> 0],
    calls |-> 0, emitted |-> 0, fails |-> 0, status |-> "none",
    computed |-> <<[i \in 1 .. MOTORS |-> 0], [i \in 1 .. MOTORS |-> 0],
                   [i \in 1 .. MOTORS |-> 0]>> ]

\* gpioDigitalInputHandlerList after construction: no handler; 0 is
\* nullptr.  priority and next are the fields of the handlers, registered
\* the handlers that were passed to registerHandler, called the handlers
\* the last call() invoked, in order
NoHandlers ==
  [ _first_handler |-> 0,
    next |-> [h \in 1 .. MaxHandlers |-> 0],
    priority |-> [h \in 1 .. MaxHandlers |-> 0],
    registered |-> {}, called |-> <<>>, op |-> "none" ]

\* the readers in_r[14] (gpio.h line 104)
READERS == 14

\* the digital input readers and pins after construction: no reader has a
\* pin, no pin has a number.  level is the electrical state of a pin, last
\* the last setExternalNumber: the pin, its number before and the number
\* asked for
NoInputs ==
  [ reader_pin |-> [n \in 1 .. READERS |-> 0],
    proxy_pin_number |-> [q \in 1 .. MaxPins |-> 0],
    level |-> [q \in 1 .. MaxPins |-> FALSE],
    last |-> [pin |-> 0, old |-> 0, e |-> 0] ]

\* the planner queue, the runtime and the machine after construction
InitMachine ==
  /\ bufs = [i \in Bufs |-> ClearBuf(i)]
  /\ mb = [r |-> 0, w |-> 0, queued |-> 0, request_planning |-> FALSE,
           run_time_remaining |-> 0]
  /\ mr = [ move_state |-> "OFF", section |-> "HEAD", section_state |-> "OFF",
            segments |-> 0, segment_count |-> 0,
            segment_time |-> 0, segment_velocity |-> 0,
            position |-> 0, target |-> 0,
            waypoint |-> [HEAD |-> 0, BODY |-> 0, TAIL |-> 0],
            entry_velocity |-> 0, entry_acceleration |-> 0, entry_jerk |-> 0,
            group_entry_velocity |-> 0,
            executed_body_length |-> 0, executed_body_time |-> 0,
            r |-> 0, p |-> 1, r_group |-> 0, p_group |-> 1,
            bk |-> [i \in {0, 1} |-> ClearBlock],
            gp |-> [i \in {0, 1} |-> ClearGroup] ]
  /\ cm = [motion_state |-> "STOP", hold_state |-> "OFF"]
  /\ halt = "none"
  /\ obs = ClearObs

Init == fd = NoDiffs /\ pl = NoPlanner /\ sp = NoSteps /\ hl = NoHandlers /\ io = NoInputs /\ InitMachine

\* ------------------------------------------------- planner queue (ring)
mp_get_run_buffer(m) ==
  IF m.bufs[m.mb.r].buffer_state = MP_BUFFER_EMPTY THEN -1 ELSE m.mb.r

\* frees the run buffer, advances mb.r; obs.ret of the result is unchanged,
\* the boolean result (queue emptied) is mb.w = mb.r afterwards
mp_free_run_buffer(m) ==
  [m EXCEPT !.bufs[m.mb.r] = ClearBuf(m.mb.r), !.mb.r = nx(m.mb.r),
            !.obs.freed = TRUE, !.obs.frees = @ + 1, !.obs.promotions = 0]
QueueEmpty(m) == m.bufs[m.mb.r].buffer_state = MP_BUFFER_EMPTY

\* ------------------------------------------------------ segment emitter
\* the running section is the last one of the running block that has length
NothingAfter(m) ==
  LET R == m.mr.bk[m.mr.r]
  IN  \/ m.mr.section = "TAIL"
      \/ m.mr.section = "BODY" /\ R.tail_length = 0
      \/ m.mr.section = "HEAD" /\ R.body_length = 0 /\ R.tail_length = 0

\* mr.segment_time = time / mr.segments (0 stands for the NaN and the
\* infinities of a division by zero, which no segment uses)
SegmentTime(time, segments) == IF segments > 0 THEN time \div segments ELSE 0

\* a mutation: the target of every segment is the integrated value
IntegratedTarget(m, ps, c) ==
  LET segment_length == m.mr.segment_velocity * m.mr.segment_time
  IN  m.mr.position + (IF segment_length > ps.drift THEN segment_length - ps.drift ELSE 0)

\* lines 1594-1602: the target of the segment is the waypoint of the section
\* when the segment is the last one of a second half outside a hold, else
\* the value integrated from the segment velocity and time; c is
\* mr.segment_count after its decrement
SegmentTarget(m, ps, c) ==
  IF c = 0 /\ m.mr.section_state = "2nd_HALF" /\ m.cm.motion_state # "HOLD"
  THEN m.mr.waypoint[m.mr.section]
  ELSE IntegratedTarget(m, ps, c)

\* ps is what the call meets below the executor: ps.status the status of
\* st_prep_line, ps.drift the rounding error of the integrated segment length,
\* ps.resumed that the debugger resumes the call from the breakpoint of
\* line 543 (the code after it reports the exception and goes on)
_exec_aline_segment(m, ps) ==
  LET c  == m.mr.segment_count - 1    \* --mr.segment_count, see U32Less
      m1 == [m EXCEPT !.mr.segment_count = c,
                      !.mb.run_time_remaining =      \* lines 1623-1626
                          IF @ < m.mr.segment_time THEN 0
                          ELSE @ - m.mr.segment_time,
                      !.obs.prep_calls = @ + 1,
                      !.obs.emitted = @ + 1,
                      !.obs.prep_failed = (ps.status # "OK"),
                      !.obs.fails = IF ps.status # "OK" THEN @ + 1 ELSE @,
                      !.obs.seg_last = (c = 0),
                      !.obs.block_last = (c = 0 /\ NothingAfter(m))]
  IN  IF ps.status # "OK" THEN Ret(m1, ps.status)
      ELSE Ret([m1 EXCEPT !.mr.position = SegmentTarget(m, ps, c),
                          !.obs.travel = @ + SegmentTarget(m, ps, c) - m.mr.position],
               IF c = 0 THEN "OK" ELSE "EAGAIN")

\* -------------------------------------------------------- section runners
\* a mutation: the section is tried again on the next call
MinimumTimeMoveAgain(m) == Ret([m EXCEPT !.obs.min_time = TRUE], "EAGAIN")

\* lines 1391-1396, 1470-1475 and 1527-1531: the segment time of the new
\* section is below MIN_SEGMENT_TIME: the section runner says the move is
\* done, without a segment
MinimumTimeMove(m) == Ret([m EXCEPT !.obs.min_time = TRUE], "OK")

\* a mutation: the executor turns the group off whatever its state
GroupOffAlways(m, g) == [m EXCEPT !.mr.gp[g].group_state = GROUP_OFF]

\* lines 1511-1513 and 996-998: a group that is DONE is turned OFF so that
\* it can be reused
GroupOffIfDone(m, g) ==
  [m EXCEPT !.mr.gp[g].group_state = IF @ = GROUP_DONE THEN GROUP_OFF ELSE @]

\* bf is always the run buffer m.mb.r; mr.r is the running block runtime
RunBlock(m) == m.mr.bk[m.mr.r]

\* lines 1538-1562, after the segment of this call was emitted (state s);
\* section_state is the state the tail was in when the call began
TailAfterSegment(s, section_state) ==
  IF section_state = "1st_HALF"
  THEN Ret([s EXCEPT !.mr.section_state = "2nd_HALF"],
           IF s.obs.ret = "OK" THEN "OK" ELSE "EAGAIN")
  ELSE Ret(s, IF s.obs.ret = "OK" THEN "OK" ELSE "EAGAIN")

\* lines 1538-1562: the first and the second half of the tail
TailSegments(a, ps) ==
  IF a.mr.section_state \in {"1st_HALF", "2nd_HALF"}
  THEN TailAfterSegment(_exec_aline_segment(a, ps), a.mr.section_state)
  ELSE Ret(a, "EAGAIN")

\* lines 1515-1535: a new tail, once the block is unplannable and a DONE
\* group is released (state a)
TailNew(a, ps) ==
  LET tt == RunBlock(a).tail_time
      n  == Ceil(tt, NOM_SEGMENT)
      b  == [a EXCEPT !.mr.segments = n, !.mr.segment_count = ToU32(n),
                      !.mr.segment_time = SegmentTime(tt, n),
                      !.obs.emitted = 0, !.obs.section_time = tt,
                      !.mr.segment_velocity =
                          (RunBlock(a).cruise_velocity + RunBlock(a).exit_velocity) \div 2,
                      !.mr.section_state =
                          IF ToU32(n) = 1 THEN "2nd_HALF" ELSE "1st_HALF"]
  IN  IF RunBlock(a).tail_length = 0 THEN Ret(a, "OK")
      ELSE IF SegmentTimeTooShort(tt, n) THEN MinimumTimeMove(b)
      ELSE TailSegments([b EXCEPT !.mr.section = "TAIL"], ps)

_exec_aline_tail(m, ps) ==
  IF m.mr.section_state = "NEW"
  THEN TailNew(GroupOffIfDone([m EXCEPT !.bufs[m.mb.r].plannable = FALSE],
                              m.mr.r_group), ps)
  ELSE TailSegments(m, ps)

\* lines 1484-1494, after the segment of this call was emitted (state s)
BodyAfterSegment(s) ==
  IF s.obs.ret = "OK"
  THEN Ret([s EXCEPT !.mr.section_state = "NEW"], "EAGAIN")
  ELSE Ret(s, "EAGAIN")

\* lines 1484-1494: the segments of the body
BodySegments(a, ps) ==
  IF a.mr.section_state = "2nd_HALF"
  THEN BodyAfterSegment(_exec_aline_segment(a, ps))
  ELSE Ret(a, "EAGAIN")

\* lines 1456-1464: a body that is run again (it was extended) ends at new
\* waypoints, counted from the position reached
BodyWaypoints(m, remaining_body_length) ==
  IF m.mr.executed_body_length # 0
  THEN [m.mr.waypoint EXCEPT
          !.BODY = m.mr.position + remaining_body_length,
          !.TAIL = m.mr.position + remaining_body_length + RunBlock(m).tail_length]
  ELSE m.mr.waypoint

_exec_aline_body(m, ps) ==
  IF m.mr.segment_velocity < 0 THEN Halt(m, "spin:1445")
  ELSE IF m.mr.section_state = "NEW" THEN
    LET remaining_body_length == RunBlock(m).body_length - m.mr.executed_body_length
        body_time == RunBlock(m).body_time - m.mr.executed_body_time
        n  == Ceil(body_time, NOM_SEGMENT)
        b  == [m EXCEPT !.mr.waypoint = BodyWaypoints(m, remaining_body_length),
                        !.mr.segments = n, !.mr.segment_count = ToU32(n),
                        !.mr.segment_time = SegmentTime(body_time, n),
                        !.obs.emitted = 0, !.obs.section_time = body_time,
                        !.mr.segment_velocity = RunBlock(m).cruise_velocity]
    IN  IF remaining_body_length = 0
        THEN _exec_aline_tail([m EXCEPT !.mr.section = "TAIL"], ps)
        ELSE IF SegmentTimeTooShort(body_time, n) THEN MinimumTimeMove(b)
        ELSE BodySegments(
               [b EXCEPT !.mr.executed_body_length = RunBlock(m).body_length,
                         !.mr.executed_body_time = RunBlock(m).body_time,
                         !.mr.section = "BODY",
                         !.mr.section_state = "2nd_HALF"], ps)
  ELSE BodySegments(m, ps)

\* lines 1398-1430, after the segment of this call was emitted (state s);
\* section_state is the state the head was in when the call began
HeadAfterSegment(s, section_state) ==
  IF s.obs.ret # "OK" THEN
    IF section_state = "1st_HALF"
    THEN Ret([s EXCEPT !.mr.section_state = "2nd_HALF"], "EAGAIN")
    ELSE Ret(s, "EAGAIN")
  ELSE IF section_state = "2nd_HALF"
          /\ RunBlock(s).body_length = 0 /\ RunBlock(s).tail_length = 0
  THEN Ret(s, "OK")
  ELSE Ret([s EXCEPT !.mr.section = "BODY", !.mr.section_state = "NEW"], "EAGAIN")

\* lines 1398-1430: the first and the second half of the head
HeadSegments(a, ps) ==
  IF a.mr.section_state \in {"1st_HALF", "2nd_HALF"}
  THEN HeadAfterSegment(_exec_aline_segment(a, ps), a.mr.section_state)
  ELSE Ret(a, "EAGAIN")

_exec_aline_head(m, ps) ==
  IF m.mr.section_state = "NEW" THEN
    LET ht == RunBlock(m).head_time
        n  == Ceil(ht, NOM_SEGMENT)
        b  == [m EXCEPT !.mr.segments = n, !.mr.segment_count = ToU32(n),
                        !.mr.segment_time = SegmentTime(ht, n),
                        !.obs.emitted = 0, !.obs.section_time = ht,
                        !.mr.segment_velocity =
                            (m.mr.entry_velocity + RunBlock(m).cruise_velocity) \div 2,
                        !.mr.section_state =
                            IF ToU32(n) = 1 THEN "2nd_HALF" ELSE "1st_HALF"]
    IN  IF RunBlock(m).head_length = 0
        THEN _exec_aline_body([m EXCEPT !.mr.section = "BODY"], ps)
        ELSE IF SegmentTimeTooShort(ht, n) THEN MinimumTimeMove(b)
        ELSE HeadSegments([b EXCEPT !.mr.section = "HEAD"], ps)
  ELSE HeadSegments(m, ps)

\* ------------------------------------------------------- aline executor

\* the group pointers swapped also when the running group is DONE
SwapRuntimePointersWhenDone(m) ==
  LET rg == m.mr.r_group
      pg == m.mr.p_group
      m0 == [m EXCEPT !.obs.swap =
               [ off |-> m.mr.gp[rg].group_state = GROUP_OFF,
                 p |-> m.mr.p, r_group |-> rg, p_group |-> pg,
                 exit_velocity |-> m.mr.gp[rg].exit_velocity,
                 body |-> m.mr.gp[rg].completed_group_body_length
                          + m.mr.bk[m.mr.r].body_length,
                 head |-> m.mr.gp[rg].completed_group_head_length
                          + m.mr.bk[m.mr.r].head_length ]]
      m1 == IF m.mr.gp[rg].group_state \in {GROUP_OFF, GROUP_DONE}
            THEN [m0 EXCEPT !.mr.group_entry_velocity = m.mr.gp[rg].exit_velocity,
                            !.mr.r_group = pg,
                            !.mr.p_group = 1 - pg]
            ELSE [m0 EXCEPT !.mr.gp[rg].completed_group_body_length =
                                @ + m.mr.bk[m.mr.r].body_length,
                            !.mr.gp[rg].completed_group_head_length =
                                @ + m.mr.bk[m.mr.r].head_length]
  IN  [m1 EXCEPT !.mr.r = m.mr.p,
                 !.mr.p = 1 - m.mr.p,
                 !.mr.bk[1 - m.mr.p].planned = FALSE]

\* group and block runtime pointers, lines 698-716
SwapRuntimePointers(m) ==
  LET rg == m.mr.r_group
      pg == m.mr.p_group
      m0 == [m EXCEPT !.obs.swap =
               [ off |-> m.mr.gp[rg].group_state = GROUP_OFF,
                 p |-> m.mr.p, r_group |-> rg, p_group |-> pg,
                 exit_velocity |-> m.mr.gp[rg].exit_velocity,
                 body |-> m.mr.gp[rg].completed_group_body_length
                          + m.mr.bk[m.mr.r].body_length,
                 head |-> m.mr.gp[rg].completed_group_head_length
                          + m.mr.bk[m.mr.r].head_length ]]
      m1 == IF m.mr.gp[rg].group_state = GROUP_OFF
            THEN [m0 EXCEPT !.mr.group_entry_velocity = m.mr.gp[rg].exit_velocity,
                            !.mr.r_group = pg,
                            !.mr.p_group = 1 - pg]
            ELSE [m0 EXCEPT !.mr.gp[rg].completed_group_body_length =
                                @ + m.mr.bk[m.mr.r].body_length,
                            !.mr.gp[rg].completed_group_head_length =
                                @ + m.mr.bk[m.mr.r].head_length]
  IN  [m1 EXCEPT !.mr.r = m.mr.p,
                 !.mr.p = 1 - m.mr.p,
                 !.mr.bk[1 - m.mr.p].planned = FALSE]

\* the bf group pointers, lines 719-750
MaintainGroupLinks(m) ==
  LET bf == m.mb.r
      b0 == m.bufs
      b1 == IF b0[bf].nx_group # nx(bf)
            THEN [b0 EXCEPT ![nx(bf)].nx_group = b0[bf].nx_group,
                            ![nx(bf)].plannable = b0[bf].plannable,
                            ![nx(bf)].group_length = b0[bf].group_length,
                            ![nx(bf)].cruise_vmax = b0[bf].cruise_vmax,
                            ![nx(bf)].cruise_velocity = b0[bf].cruise_velocity,
                            ![nx(bf)].exit_vmax = b0[bf].exit_vmax,
                            ![nx(bf)].exit_velocity = b0[bf].exit_velocity]
            ELSE b0
      b2 == [b1 EXCEPT ![b1[bf].nx_group].pv_group = bf]
      b3 == [b2 EXCEPT ![bf].pv_group = pv(bf)]
      b4 == [b3 EXCEPT ![pv(bf)].nx_group = bf]
      rg == m.mr.r_group
  IN  [m EXCEPT !.bufs = b4,
                !.mr.gp[rg].first_block = IF @ = pv(bf) THEN bf ELSE @]

\* the length of a block runtime: the sum of its sections
BlockLength(b) == b.head_length + b.body_length + b.tail_length

\* short-section merging, lines 765-782: head and tail into the body
MergeHeadTail(b) ==
  LET b1 == IF b.head_length # 0 /\ b.head_time < MIN_SEGMENT_TIME
            THEN [b EXCEPT !.body_time = @ + (b.head_length \div b.cruise_velocity),
                           !.head_time = 0,
                           !.body_length = @ + b.head_length,
                           !.head_length = 0]
            ELSE b
  IN  IF b1.tail_length # 0 /\ b1.tail_time < MIN_SEGMENT_TIME
      THEN [b1 EXCEPT !.body_time = @ + (b1.tail_length \div b1.cruise_velocity),
                      !.tail_time = 0,
                      !.body_length = @ + b1.tail_length,
                      !.tail_length = 0]
      ELSE b1

BodyTooShort(b) == b.body_length # 0 /\ b.body_time < MIN_SEGMENT_TIME

\* line 834-838: all body, still too short: while (1)
AllBodyTooShort(b) ==
  BodyTooShort(b) /\ b.cruise_jerk = 0 /\ ~(b.tail_length > 0) /\ ~(b.head_length > 0)

\* a mutation: a body that is too short is always discarded
MergeBodyDiscard(b, entry_velocity) ==
  IF ~BodyTooShort(b) THEN b ELSE [b EXCEPT !.body_length = 0, !.body_time = 0]

\* lines 788-833: a too-short body into the head and/or the tail
MergeBody(b, entry_velocity) ==
  IF ~BodyTooShort(b) THEN b
  ELSE IF b.cruise_jerk # 0 THEN [b EXCEPT !.body_length = 0, !.body_time = 0]
  ELSE IF b.tail_length > 0 THEN
    IF b.head_length > 0 THEN
      LET body_split == b.body_length \div 2
      IN  [b EXCEPT !.body_length = 0,
                    !.head_length = @ + body_split,
                    !.tail_length = @ + body_split,
                    !.head_time = @ + ((2 * body_split) \div (entry_velocity + b.cruise_velocity)),
                    !.tail_time = @ + ((2 * body_split) \div (b.cruise_velocity + b.exit_velocity)),
                    !.body_time = 0]
    ELSE [b EXCEPT !.tail_length = @ + b.body_length,
                   !.tail_time = @ + ((2 * b.body_length) \div (b.cruise_velocity + b.exit_velocity)),
                   !.body_length = 0,
                   !.body_time = 0]
  ELSE IF b.head_length > 0 THEN
    [b EXCEPT !.head_length = @ + b.body_length,
              !.head_time = @ + ((2 * b.body_length) \div (entry_velocity + b.cruise_velocity)),
              !.body_length = 0]
  ELSE b

\* lines 841-853: the target of the move and the waypoints at the ends of
\* its sections, counted from the position at this setup, and the time the
\* move has left (bf->move_time, taken as the time of its sections);
\* obs.budget is the number of segments the sections of the block have
SetWaypoints(m) ==
  LET R == RunBlock(m)
  IN  [m EXCEPT !.mb.run_time_remaining =
                    R.head_time + R.body_time + R.tail_time,
                !.obs.budget = Ceil(R.head_time, NOM_SEGMENT)
                                 + Ceil(R.body_time, NOM_SEGMENT)
                                 + Ceil(R.tail_time, NOM_SEGMENT),
                !.mr.position = 0,
                !.mr.target = m.bufs[m.mb.r].length,
                !.mr.waypoint = [HEAD |-> R.head_length,
                                 BODY |-> R.head_length + R.body_length,
                                 TAIL |-> R.head_length + R.body_length + R.tail_length]]

\* lines 752-850: the executed body is reset, the short sections of the
\* running block are merged and the waypoints are set; an all-body block
\* that is too short spins
MergeShortSections(m) ==
  IF AllBodyTooShort(MergeHeadTail(RunBlock(m)))
  THEN Halt([m EXCEPT !.mr.executed_body_length = 0,
                      !.mr.executed_body_time = 0,
                      !.mr.bk[m.mr.r] = MergeHeadTail(@),
                      !.obs.length_in = BlockLength(RunBlock(m))], "spin:837")
  ELSE SetWaypoints(
         [m EXCEPT !.mr.executed_body_length = 0,
                   !.mr.executed_body_time = 0,
                   !.mr.bk[m.mr.r] = MergeBody(MergeHeadTail(@), m.mr.entry_velocity),
                   !.obs.length_in = BlockLength(RunBlock(m))])

\* new-move setup, lines 680-854
NewMoveSetup(m) ==
  MergeShortSections(MaintainGroupLinks(SwapRuntimePointers(
    [m EXCEPT !.bufs[m.mb.r].move_state = "RUN",
              !.mr.move_state = "NEW",
              !.mr.section = "HEAD",
              !.mr.section_state = "NEW",
              !.obs.setup = TRUE])))

\* a cycle that ends with every freed buffer while no hold is active
CycleEndAlways(m) ==
  IF m.cm.hold_state = "OFF"
  THEN [m EXCEPT !.cm.motion_state = "STOP",
                 !.obs.free_empty = QueueEmpty(m), !.obs.cycle_end = TRUE]
  ELSE [m EXCEPT !.obs.free_empty = QueueEmpty(m)]

\* lines 1004-1008: the run buffer is freed (state m); the cycle ends when
\* the queue is empty and no hold is active
CycleEnd(m) ==
  IF QueueEmpty(m) /\ m.cm.hold_state = "OFF"
  THEN [m EXCEPT !.cm.motion_state = "STOP",      \* cm_cycle_end()
                 !.obs.free_empty = QueueEmpty(m), !.obs.cycle_end = TRUE]
  ELSE [m EXCEPT !.obs.free_empty = QueueEmpty(m)]

\* what the move end of lines 991-1002 writes
EndState(m) ==
  <<m.mr.move_state, m.mr.section_state, m.mb.run_time_remaining,
    m.mr.gp[m.mr.r_group].group_state,
    m.mr.entry_velocity, m.mr.entry_acceleration, m.mr.entry_jerk>>

\* a move end that leaves the running group as it is
MoveEndKeepsGroup(m) ==
  LET m1 == [m EXCEPT !.mr.move_state = "OFF",
                      !.mr.section_state = "OFF",
                      !.mb.run_time_remaining = 0,
                      !.mr.entry_velocity = RunBlock(m).exit_velocity,
                      !.mr.entry_acceleration = RunBlock(m).exit_acceleration,
                      !.mr.entry_jerk = RunBlock(m).exit_jerk,
                      !.obs.rewound = (m.bufs[m.mb.r].move_state # "RUN")]
  IN  IF m.bufs[m.mb.r].move_state = "RUN"
      THEN CycleEnd(mp_free_run_buffer(m1))
      ELSE m1

\* move end, lines 991-1009
MoveEnd(m) ==
  LET m1 == [GroupOffIfDone(m, m.mr.r_group) EXCEPT
                      !.mr.move_state = "OFF",
                      !.mr.section_state = "OFF",
                      !.mb.run_time_remaining = 0,
                      !.mr.entry_velocity = RunBlock(m).exit_velocity,
                      !.mr.entry_acceleration = RunBlock(m).exit_acceleration,
                      !.mr.entry_jerk = RunBlock(m).exit_jerk,
                      !.obs.rewound = (m.bufs[m.mb.r].move_state # "RUN")]
  IN  IF m.bufs[m.mb.r].move_state = "RUN"
      THEN CycleEnd(mp_free_run_buffer(m1))
      ELSE m1

\* lines 955-959: the section runner of the section in flight
RunSection(m, ps) ==
  IF m.mr.section = "HEAD" THEN _exec_aline_head(m, ps)
  ELSE IF m.mr.section = "BODY" THEN _exec_aline_body(m, ps)
  ELSE _exec_aline_tail(m, ps)

\* a mutation: only the tail makes the block unplannable
MarkUnplannableInTail(m) ==
  IF m.mr.section = "TAIL"
  THEN [m EXCEPT !.bufs[m.mb.r].plannable = FALSE]
  ELSE m

\* lines 962-966: in the tail, or near the end of the body, the block is no
\* longer plannable
MarkUnplannable(m) ==
  IF m.mr.section = "TAIL"
     \/ (m.mr.section = "BODY" /\ U32Less(m.mr.segment_count, 3))
  THEN [m EXCEPT !.bufs[m.mb.r].plannable = FALSE]
  ELSE m

\* lines 968-972: the deceleration of a feedhold has ended
HoldDecelEnd(m) ==
  IF m.cm.hold_state = "DECEL_TO_ZERO" /\ m.obs.ret = "OK"
  THEN [m EXCEPT !.cm.hold_state = "DECEL_END",
                 !.bufs[m.mb.r].move_state = "NEW"]
  ELSE m

\* the observer's record of lines 986-1010: m is the state the section
\* runner left, out the state the call returns
ObserveMoveEnd(m, out) ==
  [out EXCEPT !.obs.end_changed = (EndState(out) # EndState(m)),
              !.obs.call_changed = (EndState(out) # m.obs.call_in),
              !.obs.end_run_time = m.mb.run_time_remaining,
              !.obs.call_in = ClearObs.call_in]

\* lines 986-1010: STAT_EAGAIN is returned as it is, every other status
\* ends the move
ReturnOrEndMove(m) ==
  ObserveMoveEnd(m, IF m.obs.ret = "EAGAIN" THEN m ELSE MoveEnd(m))

\* lines 856-1010: mp_exec_aline once the move is set up (state m)
RunAline(m, ps) ==
  IF m.halt # "none" THEN m
  ELSE IF m.cm.motion_state = "HOLD" THEN Halt(m, "spin:878")
  ELSE ReturnOrEndMove(HoldDecelEnd(MarkUnplannable(
         RunSection([m EXCEPT !.mr.move_state = "RUN"], ps))))

mp_exec_aline(m, ps) ==
  IF m.bufs[m.mb.r].move_state = "OFF" THEN Ret(m, "NOOP")
  ELSE IF m.mr.move_state = "OFF"
  THEN RunAline(NewMoveSetup([m EXCEPT !.obs.aline_ran = TRUE,
                                       !.obs.call_in = EndState(m)]), ps)
  ELSE RunAline([m EXCEPT !.obs.aline_ran = TRUE,
                          !.obs.call_in = EndState(m)], ps)

\* ------------------------------------------------------- executor entry
\* the callback of a command block: runs the command and frees the buffer
exec_command(m) == Ret(mp_free_run_buffer(m), "OK")

\* lines 534, 558-572: a buffer that is not RUNNING is promoted and
\* mp_planner_time_accounting() called (obs.promotions counts the times since
\* the run buffer was last freed, obs.calls the calls that got here since
\* the buffer was promoted); the machine is in motion
StartRunning(m, bf) ==
  [m EXCEPT !.bufs[bf].buffer_state = MP_BUFFER_RUNNING,
            !.obs.calls = IF m.bufs[bf].buffer_state # MP_BUFFER_RUNNING
                          THEN 1 ELSE @ + 1,
            !.obs.promotions = IF m.bufs[bf].buffer_state # MP_BUFFER_RUNNING
                               THEN @ + 1 ELSE @,
            !.cm.motion_state = IF @ # "RUN" /\ @ # "HOLD" THEN "RUN" ELSE @]

\* a mutation: a run buffer that is not planned is never a trap
RunBufferNotPlannedNoop(m) == Ret(m, "NOOP")

\* lines 547-556: the run buffer is PREPPED, not yet PLANNED: a trap when the
\* machine is running, else a plan is requested and the call is a no-op
RunBufferNotPlanned(m) ==
  IF m.cm.motion_state = "RUN" THEN Halt(m, "BKPT:549") ELSE Ret(m, "NOOP")

mp_exec_move(m, ps) ==
  LET bf == mp_get_run_buffer(m) IN
  IF bf = -1 THEN Ret(m, "NOOP")
  ELSE IF m.bufs[bf].move_type = "ALINE" THEN
    IF m.bufs[bf].buffer_state # MP_BUFFER_RUNNING
       /\ m.bufs[bf].buffer_state < MP_BUFFER_PREPPED
    THEN Halt(m, "BKPT:536")
    ELSE IF m.bufs[bf].buffer_state # MP_BUFFER_RUNNING
            /\ m.bufs[nx(bf)].buffer_state < MP_BUFFER_PREPPED
            /\ ~ps.resumed
    THEN Halt(m, "BKPT:543")
    ELSE IF m.bufs[bf].buffer_state = MP_BUFFER_PREPPED
    THEN RunBufferNotPlanned(m)
    ELSE mp_exec_aline(StartRunning(m, bf), ps)
  ELSE IF m.bufs[bf].move_type = "NULL"
    THEN Halt(Ret(m, "INTERNAL_ERROR"), "panic:576")
  ELSE exec_command(m)

\* ---------------------------------------------------------- the planner
\* a mutation: the check forgets the body length
NegativeHeadOrTail(grp) == grp.head_length < 0 \/ grp.tail_length < 0

\* the test of lines 168, 375 and 471
NegativeLengths(grp) ==
  grp.head_length < 0 \/ grp.body_length < 0 \/ grp.tail_length < 0

\* the observer's record of lines 142-171: m is the state before, out the
\* state after an accepted change of group g.  accept_bad names the first
\* thing that is not as it should be: a PLANNED first block that is not
\* PREPPED, a PLANNED next block that is not PREPPED, a RUNNING or EMPTY
\* buffer whose state changed, or a planning group that is not OFF after a
\* change of the running group
ObserveAccept(m, g, out) ==
  LET fb == m.mr.gp[g].first_block
      bad == IF m.bufs[fb].buffer_state = MP_BUFFER_PLANNED
                /\ out.bufs[fb].buffer_state # MP_BUFFER_PREPPED
             THEN "first"
             ELSE IF m.bufs[nx(fb)].buffer_state = MP_BUFFER_PLANNED
                     /\ out.bufs[nx(fb)].buffer_state # MP_BUFFER_PREPPED
             THEN "next"
             ELSE IF \E i \in Bufs :
                       /\ m.bufs[i].buffer_state
                            \in {MP_BUFFER_RUNNING, MP_BUFFER_EMPTY}
                       /\ out.bufs[i].buffer_state # m.bufs[i].buffer_state
             THEN "other"
             ELSE IF g = m.mr.r_group
                     /\ out.mr.gp[m.mr.p_group].group_state # GROUP_OFF
             THEN "p_group"
             ELSE "none"
  IN  [out EXCEPT !.obs.accept = IF g = m.mr.r_group THEN "r_group" ELSE "p_group",
                  !.obs.accept_bad = IF @ = "none" THEN bad ELSE @,
                  !.obs.accept_next =
                      @ \/ (g = m.mr.r_group
                             /\ m.bufs[nx(fb)].buffer_state = MP_BUFFER_PLANNED
                             /\ m.mr.gp[m.mr.p_group].group_state # GROUP_OFF)]

\* a mutation: the block after the first block is left PLANNED
FinishExtensionFirstOnly(m, g, ge, vc) ==
  IF ~(ge \/ vc) THEN [m |-> m, ge |-> ge, vc |-> vc]
  ELSE
    LET fb == m.mr.gp[g].first_block
        m1 == [m EXCEPT !.mr.gp[g].group_state = GROUP_RAMPED,
                        !.bufs[fb].buffer_state =
                            IF @ = MP_BUFFER_PLANNED THEN MP_BUFFER_PREPPED ELSE @]
    IN  [m |-> ObserveAccept(m, g, IF NegativeLengths(m1.mr.gp[g])
                                   THEN Halt(m1, "BKPT:169") ELSE m1),
         ge |-> ge, vc |-> vc]

\* lines 141-171: the extension or velocity change is going ahead
FinishExtension(m, g, ge, vc) ==
  IF ~(ge \/ vc) THEN [m |-> m, ge |-> ge, vc |-> vc]
  ELSE
    LET fb == m.mr.gp[g].first_block
        m1 == [m EXCEPT !.mr.gp[g].group_state = GROUP_RAMPED,
                        !.bufs[fb].buffer_state =
                            IF @ = MP_BUFFER_PLANNED THEN MP_BUFFER_PREPPED ELSE @]
        m2 == IF m1.bufs[nx(fb)].buffer_state = MP_BUFFER_PLANNED
              THEN [m1 EXCEPT !.bufs[nx(fb)].buffer_state = MP_BUFFER_PREPPED,
                              !.mr.gp[m.mr.p_group].group_state =
                                  IF g = m.mr.r_group THEN GROUP_OFF ELSE @]
              ELSE m1
    IN  [m |-> ObserveAccept(m, g, IF NegativeLengths(m2.mr.gp[g])
                                   THEN Halt(m2, "BKPT:169") ELSE m2),
         ge |-> ge, vc |-> vc]

\* lines 128-137: the first block leaves at the cruise velocity, the group
\* cruises to its end
CruiseToEnd(m, g, ge, vc) ==
  LET grp == m.mr.gp[g]
  IN  FinishExtension(
        [m EXCEPT !.mr.gp[g].exit_velocity = grp.cruise_velocity,
                  !.mr.gp[g].body_length = grp.length - grp.head_length,
                  !.mr.gp[g].body_time =
                      (grp.length - grp.head_length) \div grp.cruise_velocity,
                  !.mr.gp[g].tail_length = 0,
                  !.mr.gp[g].tail_time = 0],
        g, ge, vc)

\* a mutation: the new tail is taken whatever its length
ExtendWithAnyTail(m, g, ge, vc, tail_length) ==
  LET grp == m.mr.gp[g]
      B   == m.bufs[grp.first_block]
      len == IF ge THEN B.group_length ELSE grp.length
  IN  FinishExtension(
        [m EXCEPT !.mr.gp[g].length = len,
                  !.mr.gp[g].exit_velocity = B.exit_velocity,
                  !.mr.gp[g].tail_length = tail_length,
                  !.mr.gp[g].body_length = len - (tail_length + grp.head_length),
                  !.mr.gp[g].body_time =
                      (len - (tail_length + grp.head_length)) \div grp.cruise_velocity,
                  !.mr.gp[g].tail_time =
                      (tail_length * 2) \div (B.exit_velocity + grp.cruise_velocity)],
        g, ge, vc)

\* lines 93-128, for one result tail_length of mp_get_target_length
ExtendWithTail(m, g, ge, vc, tail_length) ==
  LET grp == m.mr.gp[g]
      fb  == grp.first_block
      B   == m.bufs[fb]
      len == IF ge THEN B.group_length ELSE grp.length
  IN  IF ge /\ (grp.length - grp.tail_length) <= (B.group_length - tail_length)
            /\ g = m.mr.r_group /\ m.mr.section = "BODY"
      THEN [m |-> Halt(m, "BKPT:99"), ge |-> ge, vc |-> vc]
      ELSE IF ge \/ g = m.mr.p_group \/ tail_length < grp.tail_length
      THEN FinishExtension(
             [m EXCEPT !.mr.gp[g].length = len,
                       !.mr.gp[g].exit_velocity = B.exit_velocity,
                       !.mr.gp[g].tail_length = tail_length,
                       !.mr.gp[g].body_length = len - (tail_length + grp.head_length),
                       !.mr.gp[g].body_time =
                           (len - (tail_length + grp.head_length)) \div grp.cruise_velocity,
                       !.mr.gp[g].tail_time =
                           (tail_length * 2) \div (B.exit_velocity + grp.cruise_velocity)],
             g, ge, vc)
      ELSE FinishExtension([m EXCEPT !.bufs[fb].exit_velocity = grp.exit_velocity],
                           g, ge, FALSE)

\* what the outcome out of lines 93-128 did to group g of state m: "reverted"
\* when the group is as it was, the exit velocity of its first block is the
\* group's again and velocity_changed is cleared
InversionOutcome(m, g, out) ==
  IF /\ out.m.mr.gp[g] = m.mr.gp[g]
     /\ out.m.bufs[m.mr.gp[g].first_block].exit_velocity = m.mr.gp[g].exit_velocity
     /\ ~out.vc
  THEN "reverted" ELSE "accepted"

\* lines 93-128 with the observation of the inversion case
ObserveInversion(m, g, ge, vc, tail_length, out) ==
  IF ~ge /\ vc /\ tail_length >= m.mr.gp[g].tail_length
  THEN IF g = m.mr.r_group
       THEN [out EXCEPT !.m.obs.inv_r = InversionOutcome(m, g, out)]
       ELSE [out EXCEPT !.m.obs.inv_p = InversionOutcome(m, g, out)]
  ELSE out

\* the group g after an accepted length extension: it has the length of its
\* first block's group, is RAMPED, and its sections add up to that length
ExtensionKept(a, g) ==
  LET G == a.mr.gp[g]
  IN  /\ G.length = a.bufs[G.first_block].group_length
      /\ G.group_state = GROUP_RAMPED
      /\ G.head_length + G.body_length + G.tail_length = G.length

\* a mutation: velocity_changed is left as it is
PlayOutTailKeep(m, ge, vc) == [m |-> m, ge |-> ge, vc |-> vc]

\* lines 79-82: the running group is in its tail and only the exit velocity
\* has risen: the move is played out as planned
PlayOutTail(m, ge, vc) == [m |-> m, ge |-> ge, vc |-> FALSE]

\* lines 70-83 and 118-127 with the observation of a change that could not
\* be applied to group g of state m
ObserveRejection(m, g, kind, out) ==
  [out EXCEPT !.m.obs.rej = kind,
              !.m.obs.rej_bad =
                 IF out.m.halt = "none"
                      /\ (out.ge \/ out.vc \/ out.m.mr.gp[g] # m.mr.gp[g])
                 THEN TRUE ELSE @]

\* lines 93-102 with the observation of a length extension of the running
\* group in its body: the body ends where the tail begins
ObserveBodyExtension(m, g, ge, tail_length, out) ==
  IF ge /\ g = m.mr.r_group /\ m.mr.section = "BODY"
  THEN [out EXCEPT !.m.obs.body_ext =
          IF m.bufs[m.mr.gp[g].first_block].group_length - tail_length
               < m.mr.gp[g].length - m.mr.gp[g].tail_length
          THEN "shrinks" ELSE "keeps"]
  ELSE out

\* lines 86-171 with the observation of an accepted length extension
ObserveExtension(g, branch, out) ==
  IF out.ge /\ out.m.halt = "none"
  THEN [out EXCEPT !.m.obs.ext_seen = branch,
                   !.m.obs.ext_bad = IF ExtensionKept(out.m, g) THEN @ ELSE branch]
  ELSE out

\* the set of outcomes of _attempt_extension(group, group_extended,
\* velocity_changed); mp_get_target_length may return any length in TailLens
_attempt_extension(m, g, ge, vc) ==
  IF ~(ge \/ vc) THEN {[m |-> m, ge |-> ge, vc |-> vc]}
  ELSE
    LET grp == m.mr.gp[g]
        B   == m.bufs[grp.first_block]
    IN  IF g = m.mr.r_group /\ m.mr.section = "TAIL" THEN
          IF ge THEN {ObserveRejection(m, g, "tail_ext",
                                        [m |-> Halt(m, "BKPT:76"), ge |-> ge, vc |-> vc])}
          ELSE {ObserveRejection(m, g, "tail", PlayOutTail(m, ge, vc))}
        ELSE IF B.exit_velocity # grp.cruise_velocity THEN
          { ObserveBodyExtension(m, g, ge, tl, ObserveExtension(g, "tail",
              ObserveInversion(m, g, ge, vc, tl,
                IF g = m.mr.r_group /\ ~ge /\ vc /\ tl >= grp.tail_length
                THEN ObserveRejection(m, g, "inversion", ExtendWithTail(m, g, ge, vc, tl))
                ELSE ExtendWithTail(m, g, ge, vc, tl))))
            : tl \in TailLens }
        ELSE
          { ObserveBodyExtension(m, g, ge, 0,
              ObserveExtension(g, "cruise", CruiseToEnd(m, g, ge, vc))) }

\* a mutation: the exit velocity the back-planner wrote is taken as it is
KeepExitVelocity(m, fb) == m

\* lines 266-273 and 296-298: the back-planner may have written an exit
\* velocity above the exit_vmax the look-ahead has set; it is cut to it
LimitExitVelocity(m, fb) ==
  IF m.bufs[fb].exit_velocity > m.bufs[fb].exit_vmax
  THEN [m EXCEPT !.bufs[fb].exit_velocity = m.bufs[fb].exit_vmax]
  ELSE m

\* lines 259-280 and 290-306: detect an extension or a raised exit velocity
\* of group g and attempt it
DetectAndExtend(m, g) ==
  LET fb == m.mr.gp[g].first_block
      ge == ~(m.mr.gp[g].length >= m.bufs[fb].group_length)
      m1 == LimitExitVelocity(m, fb)
      vc == ~(m1.mr.gp[g].exit_velocity >= m1.bufs[fb].exit_velocity)
  IN  _attempt_extension(m1, g, ge, vc)

\* the ramp lengths mp_calculate_ramps may choose between v and the cruise
RampLens(v, cruise) == IF v < cruise THEN TailLens ELSE {0}

\* the cruise velocities mp_calculate_ramps may give a group: the block's
\* cruise velocity, or a lower one that is not below the entry and the exit
\* velocity
GroupCruise(B, entry_velocity) ==
  { v \in Velocities : /\ v > 0 /\ v <= B.cruise_velocity
                       /\ v >= entry_velocity /\ v >= B.exit_velocity }

\* the outcomes of mp_calculate_ramps(bf, group, entry_velocity): a cruise
\* velocity, a head and a tail where the velocity changes; the body is what
\* is left of the group length
mp_calculate_ramps(m, bf, g, entry_velocity) ==
  UNION {
    { LET B == m.bufs[bf]
      IN  [m EXCEPT !.mr.gp[g].head_length = h,
                    !.mr.gp[g].tail_length = t,
                    !.mr.gp[g].body_length = B.group_length - h - t,
                    !.mr.gp[g].cruise_velocity = c,
                    !.mr.gp[g].exit_velocity = B.exit_velocity,
                    !.mr.gp[g].body_time = CruiseTime(B.group_length - h - t, c),
                    !.mr.gp[g].tail_time = RampTime(t, B.exit_velocity, c)]
      : h \in RampLens(entry_velocity, c),
        t \in RampLens(m.bufs[bf].exit_velocity, c) }
    : c \in GroupCruise(m.bufs[bf], entry_velocity) }

\* lines 370-403: ramp a group that is OFF
PlanRamps(m, bf, g, entry_velocity) ==
  IF m.bufs[bf].buffer_state = MP_BUFFER_PREPPED /\ m.mr.gp[g].group_state = GROUP_OFF
  THEN { IF NegativeLengths(a.mr.gp[g]) THEN Halt(a, "BKPT:376")
         ELSE [a EXCEPT !.mr.gp[g].completed_group_body_length = 0,
                        !.mr.gp[g].completed_group_head_length = 0,
                        !.mr.gp[g].first_block = bf,
                        !.mr.gp[g].length = a.bufs[bf].group_length,
                        !.mr.gp[g].group_state = GROUP_RAMPED]
         : a \in mp_calculate_ramps(m, bf, g, entry_velocity) }
  ELSE {m}

\* the walk of lines 411-415
RECURSIVE LookaheadWalk(_, _, _)
LookaheadWalk(b, bf_lookahead, lock_length_left) ==
  IF b[bf_lookahead].length < lock_length_left
  THEN LookaheadWalk(b, nx(bf_lookahead), lock_length_left - b[bf_lookahead].length)
  ELSE bf_lookahead

\* lines 405-450: a RAMPED group: find the first block of the tail
PlanLookahead(m, bf, g) ==
  IF m.mr.gp[g].group_state # GROUP_RAMPED THEN m
  ELSE
    LET grp == m.mr.gp[g]
        lock_length_left == (grp.head_length - grp.completed_group_head_length)
                            + (grp.body_length - grp.completed_group_body_length)
        la == LookaheadWalk(m.bufs, bf, lock_length_left)
        b1 == [m.bufs EXCEPT ![m.bufs[bf].nx_group].pv_group = la]
        b2 == [b1 EXCEPT ![la].nx_group = b1[bf].nx_group]
        b3 == [b2 EXCEPT ![pv(la)].exit_vmax = 0, ![pv(la)].exit_velocity = 0]
        b4 == [b3 EXCEPT ![la].cruise_vmax = grp.cruise_velocity,
                         ![la].exit_vmax = grp.cruise_velocity,
                         ![la].exit_velocity = grp.exit_velocity,
                         ![la].cruise_velocity = grp.cruise_velocity,
                         ![la].group_length = grp.length]
    IN  [m EXCEPT !.bufs = b4,
                  !.mr.gp[g].first_block = la,
                  !.mr.gp[g].group_state = GROUP_HEAD]

Clamp(x, lo, hi) == IF x < lo THEN lo ELSE IF x > hi THEN hi ELSE x

\* mp_calculate_block(bf, group, block, entry_*): maps the group's head, body
\* and tail onto the block.  The block starts where the blocks of the group
\* that were run or planned before it end; it takes what is left of the
\* head, then of the body, and the rest of its length is tail.  The section
\* times follow from the lengths and the velocities.  A block that ends
\* inside the head or the tail of the group ends with an acceleration, and
\* one that ends inside the head with a jerk as well.  The status is STAT_OK
\* when the block reaches the end of the group
mp_calculate_block(m, bf, g, block, entry_velocity) ==
  LET B    == m.bufs[bf]
      grp  == m.mr.gp[g]
      R    == m.mr.bk[m.mr.r]
      off  == grp.completed_group_head_length + grp.completed_group_body_length
                + (IF g = m.mr.r_group /\ block = m.mr.p
                   THEN R.head_length + R.body_length + R.tail_length ELSE 0)
      h    == Clamp(grp.head_length - off, 0, B.length)
      b    == Clamp(grp.head_length + grp.body_length - off - h, 0, B.length - h)
      t    == B.length - h - b
      last == off + B.length >= grp.length
      xv   == IF t > 0 \/ last THEN grp.exit_velocity ELSE grp.cruise_velocity
  IN  [ m |-> [m EXCEPT
          !.mr.bk[block] =
            [ head_length |-> h, body_length |-> b, tail_length |-> t,
              head_time |-> RampTime(h, entry_velocity, grp.cruise_velocity),
              body_time |-> CruiseTime(b, grp.cruise_velocity),
              tail_time |-> RampTime(t, grp.cruise_velocity, xv),
              cruise_velocity |-> grp.cruise_velocity,
              exit_velocity |-> xv,
              cruise_jerk |-> IF (0 < h /\ h < grp.head_length)
                                 \/ (0 < t /\ t < grp.tail_length)
                              THEN 1 ELSE 0,
              exit_acceleration |-> IF (0 < h /\ off + h < grp.head_length)
                                       \/ (0 < t /\ ~last)
                                    THEN 1 ELSE 0,
              exit_jerk |-> IF 0 < h /\ off + h < grp.head_length
                            THEN 1 ELSE 0,
              planned |-> m.mr.bk[block].planned ],
          !.mr.gp[g].group_state =
              IF t > 0 THEN GROUP_TAIL ELSE IF b > 0 THEN GROUP_BODY ELSE GROUP_HEAD,
          !.obs.calc_called = TRUE,
          !.obs.calc_neg = (grp.head_length < 0 \/ grp.body_length < 0
                                \/ grp.tail_length < 0)],
        status |-> IF last THEN "OK" ELSE "EAGAIN" ]

\* a mutation: the planner moves on to the other block runtime once it has
\* planned one
MarkPlannedAndAdvance(m, block) ==
  [m EXCEPT !.mr.bk[block].planned = TRUE, !.mr.p = 1 - block]

\* line 496
MarkPlanned(m, block) == [m EXCEPT !.mr.bk[block].planned = TRUE]

\* lines 461-509: map the group onto the block runtime
PlanDisperse(m, bf, g, block, entry_velocity) ==
  LET grp == m.mr.gp[g] IN
  IF grp.group_state > GROUP_RAMPED /\ grp.group_state # GROUP_DONE
       /\ m.bufs[bf].buffer_state # MP_BUFFER_PLANNED
  THEN
    IF NegativeLengths(grp) THEN {Halt(m, "BKPT:472")}
    ELSE
      { LET c   == mp_calculate_block(m, bf, g, block, entry_velocity)
            a   == c.m
            blk == a.mr.bk[block]
        IN  IF a.bufs[bf].buffer_state # MP_BUFFER_EMPTY
                 /\ blk.exit_velocity > blk.cruise_velocity
            THEN Halt(a, "BKPT:484")
            ELSE IF blk.head_length = 0 /\ blk.body_length = 0 /\ blk.tail_length = 0
            THEN Halt(a, "BKPT:489")
            ELSE IF NegativeLengths(a.mr.gp[g]) THEN Halt(a, "BKPT:493")
            ELSE Ret([MarkPlanned(a, block) EXCEPT
                               !.mr.gp[g].group_state =
                                   IF c.status = "OK" THEN GROUP_DONE ELSE @,
                               !.bufs[bf].buffer_state = MP_BUFFER_PLANNED],
                     "OK") }
  ELSE {Ret(m, "NOOP")}

\* lines 360-513, once bf, group, block and the entry velocity are chosen
PlanBlock(m, bf, g, block, entry_velocity) ==
  IF m.bufs[bf].buffer_state < MP_BUFFER_PREPPED THEN {Ret(m, "NOOP")}
  ELSE UNION { IF a.halt # "none" THEN {a}
               ELSE PlanDisperse(PlanLookahead(a, bf, g), bf, g, block, entry_velocity)
               : a \in PlanRamps(m, bf, g, entry_velocity) }

\* a mutation: the planner always plans into the running block runtime
SelectRunningBlockRuntime(m, extended) == m.mr.r

\* lines 319-332: the planner plans into mr.p, and into mr.r when the running
\* group was extended or its exit velocity raised
SelectBlockRuntime(m, extended) == IF extended THEN m.mr.r ELSE m.mr.p

\* lines 309-357: choose the buffer and the block runtime to plan
PlanSelectBlock(x, bf) ==
  LET m == x.m
      g == x.g
  IN  IF m.bufs[bf].buffer_state = MP_BUFFER_RUNNING THEN
        IF (x.ge \/ x.vc) /\ g = m.mr.r_group
        THEN PlanBlock([m EXCEPT !.obs.ext_running = TRUE], bf, g,
                       SelectBlockRuntime(m, TRUE), m.mr.entry_velocity)
        ELSE IF g = m.mr.p_group /\ m.mr.gp[g].group_state = GROUP_DONE
        THEN {Ret(m, "NOOP")}
        ELSE IF m.bufs[nx(bf)].move_type # "ALINE"
        THEN {Ret([m EXCEPT !.bufs[nx(bf)].buffer_state = MP_BUFFER_PLANNED], "OK")}
        ELSE PlanBlock(m, nx(bf), g, SelectBlockRuntime(m, FALSE),
                       m.mr.bk[m.mr.r].exit_velocity)
      ELSE PlanBlock(m, bf, g, SelectBlockRuntime(m, FALSE), m.mr.entry_velocity)

\* lines 282-307: choose the group to work on
PlanSelectGroup(x) ==
  LET m  == x.m
      rg == m.mr.r_group
  IN  IF x.ge \/ x.vc \/ (m.mr.gp[rg].group_state # GROUP_OFF
                           /\ m.mr.gp[rg].group_state # GROUP_DONE)
      THEN {[m |-> m, ge |-> x.ge, vc |-> x.vc, g |-> rg]}
      ELSE IF m.mr.gp[m.mr.p_group].group_state # GROUP_OFF
      THEN { [m |-> y.m, ge |-> y.ge, vc |-> y.vc, g |-> m.mr.p_group]
             : y \in DetectAndExtend(m, m.mr.p_group) }
      ELSE {[m |-> m, ge |-> x.ge, vc |-> x.vc, g |-> m.mr.p_group]}

\* the set of outcomes of one call of mp_plan_move()
mp_plan_move(m) ==
  LET bf == mp_get_run_buffer(m) IN
  IF bf = -1 THEN {Ret(m, "NOOP")}
  ELSE IF m.bufs[bf].move_type # "ALINE"
  THEN {Ret([m EXCEPT !.bufs[bf].buffer_state = MP_BUFFER_PLANNED], "OK")}
  ELSE
    LET first == IF m.mr.gp[m.mr.r_group].group_state # GROUP_OFF
                 THEN DetectAndExtend(m, m.mr.r_group)
                 ELSE {[m |-> m, ge |-> FALSE, vc |-> FALSE]}
    IN  UNION { IF x.m.halt # "none" THEN {x.m}
                ELSE UNION { IF y.m.halt # "none" THEN {y.m}
                             ELSE PlanSelectBlock(y, bf)
                             : y \in PlanSelectGroup(x) }
                : x \in first }

\* ------------------------------------------------------------- actions
Install(m) ==
  /\ bufs' = m.bufs
  /\ mb' = m.mb
  /\ mr' = m.mr
  /\ cm' = m.cm
  /\ halt' = m.halt
  /\ obs' = m.obs
  /\ fd' = fd
  /\ pl' = pl
  /\ sp' = sp
  /\ hl' = hl
  /\ io' = io

\* the execution interrupt: one call of mp_exec_move(); st_prep_line
\* answers with one of the statuses in results
ExecMoveWith(results) ==
  /\ halt = "none"
  /\ mr.segment_count >= 0
  /\ \E st \in results, d \in 0 .. MaxDrift :
       /\ st = "PREP_FAIL" => obs.fails < MaxPrepFail
       /\ Install(mp_exec_move(NewCall(Machine, "exec"), [status |-> st, drift |-> d, resumed |-> FALSE]))

ExecMove == ExecMoveWith({"OK", "PREP_FAIL"})

\* the planning interrupt: one call of mp_plan_move()
PlanMove ==
  /\ halt = "none"
  /\ \E m \in mp_plan_move(NewCall(Machine, "plan")) :
       Install([m EXCEPT !.obs.nx_out = m.bufs[nx(m.mb.r)].buffer_state])

\* the main loop queues a block (mp_aline or a command) in the write buffer
QueueBlockOf(types, lens, max) ==
  /\ halt = "none"
  /\ mb.queued < max
  /\ bufs[mb.w].buffer_state = MP_BUFFER_EMPTY
  /\ \E type \in types, len \in lens :
       LET w  == mb.w
           B  == [ buffer_state |-> MP_BUFFER_PREPPED, move_type |-> type,
                   move_state |-> "NEW",
                   length |-> IF type = "ALINE" THEN len ELSE 0,
                   group_length |-> IF type = "ALINE" THEN len ELSE 0,
                   cruise_vmax |-> VMAX, cruise_velocity |-> VMAX,
                   exit_vmax |-> VMAX, exit_velocity |-> 0,
                   plannable |-> TRUE, nx_group |-> nx(w), pv_group |-> pv(w) ]
       IN  /\ bufs' = [bufs EXCEPT ![w] = B, ![nx(w)].pv_group = w]
           /\ mb' = [mb EXCEPT !.w = nx(w), !.queued = @ + 1,
                               !.request_planning = (type = "ALINE")]
  /\ UNCHANGED <<mr, cm, halt, obs, fd, pl, sp, hl, io>>

QueueBlock == QueueBlockOf({"ALINE", "COMMAND"}, BlockLens, MaxMoves)

\* the back-planner runs once for every queued aline (mb.request_planning)
\* and works on the newest block n and on the group that ends before it.
\* Here it joins n to that group: the group's first block carries the new
\* group length
BackPlanExtend ==
  /\ halt = "none"
  /\ mb.request_planning
  /\ \E fb \in Bufs :
       LET n == pv(mb.w) IN
       /\ bufs[fb].move_type = "ALINE" /\ bufs[fb].buffer_state # MP_BUFFER_EMPTY
       /\ bufs[fb].plannable
       /\ bufs[fb].nx_group = n
       /\ n # fb
       /\ bufs' = [bufs EXCEPT ![fb].group_length = @ + bufs[n].length,
                               ![fb].nx_group = nx(n),
                               ![nx(n)].pv_group = fb]
  /\ mb' = [mb EXCEPT !.request_planning = FALSE]
  /\ UNCHANGED <<mr, cm, halt, obs, fd, pl, sp, hl, io>>

\* the back-planner raises the exit velocity of the group that ends before
\* the newest block
BackPlanVelocity ==
  /\ halt = "none"
  /\ mb.request_planning
  /\ \E fb \in Bufs, v \in Velocities :
       /\ bufs[fb].move_type = "ALINE" /\ bufs[fb].buffer_state # MP_BUFFER_EMPTY
       /\ bufs[fb].plannable
       /\ bufs[fb].nx_group = pv(mb.w)
       /\ pv(mb.w) # fb
       /\ v > bufs[fb].exit_velocity
       /\ bufs' = [bufs EXCEPT ![fb].exit_velocity = v]
  /\ mb' = [mb EXCEPT !.request_planning = FALSE]
  /\ UNCHANGED <<mr, cm, halt, obs, fd, pl, sp, hl, io>>

\* cm_start_hold(): a feedhold is requested while the machine is running
StartHold ==
  /\ halt = "none"
  /\ cm.motion_state = "RUN"
  /\ cm' = [motion_state |-> "HOLD", hold_state |-> "SYNC"]
  /\ UNCHANGED <<bufs, mb, mr, halt, obs, fd, pl, sp, hl, io>>

\* mp_exit_hold_state(), lines 1022-1032: the feedhold ends; the machine
\* runs again when there is a buffer to run
mp_exit_hold_state ==
  /\ halt = "none"
  /\ cm.motion_state = "HOLD"
  /\ cm' = [hold_state |-> "OFF",
            motion_state |-> IF mp_get_run_buffer(Machine) # -1 THEN "RUN" ELSE "STOP"]
  /\ UNCHANGED <<bufs, mb, mr, halt, obs, fd, pl, sp, hl, io>>

Next ==
  \/ ExecMove
  \/ PlanMove
  \/ QueueBlock
  \/ BackPlanExtend
  \/ BackPlanVelocity
  \/ StartHold
  \/ mp_exit_hold_state

Spec == Init /\ [][Next]_vars

\* ------------------------------------------------------------- properties
Running == {i \in Bufs : bufs[i].buffer_state = MP_BUFFER_RUNNING}
Planned == {i \in Bufs : bufs[i].buffer_state = MP_BUFFER_PLANNED}
\* the last call was mp_exec_move, it reached mp_exec_aline on a block whose
\* move_state was not OFF, outside a feedhold, and the call returned
AlineCall == obs.op = "exec" /\ obs.aline_ran /\ obs.hold_in = "NONE" /\ halt = "none"
Pointers == <<mr.r, mr.p, mr.r_group, mr.p_group>>
\* what the executor keeps about the section in flight
InFlight == <<mr.move_state, mr.section, mr.section_state, mr.segments,
              mr.segment_count, mr.executed_body_length, mr.executed_body_time,
              mr.entry_velocity>>

LengthsNotNegative(grp) ==
  grp.head_length >= 0 /\ grp.body_length >= 0 /\ grp.tail_length >= 0

\* C1: outside a feedhold every call of mp_exec_aline on a block whose
\* move_state is not OFF calls st_prep_line exactly once
C1_OneSegmentPerCall == AlineCall => obs.prep_calls = 1

\* C2: a call of mp_exec_aline that prepared a segment returns STAT_OK when
\* the segment is the last one of the block and STAT_EAGAIN when it is not
C2_ReturnTellsLastSegment ==
  (AlineCall /\ obs.prep_calls = 1 /\ ~obs.prep_failed)
    => obs.ret = (IF obs.block_last THEN "OK" ELSE "EAGAIN")

\* C3: in every step a buffer_state stays, moves up in the order
\* EMPTY < PREPPED < PLANNED < RUNNING, is freed, or is taken from PLANNED
\* to PREPPED by the planner
C3_BufferStateOnlyAdvances ==
  [][\A i \in Bufs :
       \/ bufs'[i].buffer_state >= bufs[i].buffer_state
       \/ bufs'[i].buffer_state = MP_BUFFER_EMPTY
       \/ /\ bufs[i].buffer_state = MP_BUFFER_PLANNED
          /\ bufs'[i].buffer_state = MP_BUFFER_PREPPED
          /\ obs'.op = "plan"]_vars

\* C4: at most one buffer is RUNNING and at most one buffer is PLANNED
C4_OneRunningOnePlanned == Cardinality(Running) <= 1 /\ Cardinality(Planned) <= 1

C6_PointersMoveOnlyInSetup ==
  [][Pointers' # Pointers => (obs'.op = "exec" /\ obs'.setup)]_vars

\* the planner returned after the setup of the second move swapped the pointers
C6_Witness == obs.op = "plan" /\ obs.ret = "OK" /\ mr.r = 0 /\ mr.p = 1 /\ mb.r = 1

\* C7: no routine enters a while(1)
C7_NoRoutineSpins == halt \notin {"spin:837", "spin:878"}

\* C8: a status other than STAT_OK from st_prep_line is what mp_exec_move
\* returns
C8_PrepFailureIsReturned ==
  (obs.op = "exec" /\ obs.prep_failed /\ halt = "none") => obs.ret = "PREP_FAIL"

C10_NoDispersalOfNegativeLengths ==
  /\ obs.calc_called => ~obs.calc_neg
  /\ halt = "none" => \A g \in {0, 1} : LengthsNotNegative(mr.gp[g])

\* ramp calculation or an extension produced a negative length and the
\* planner stopped in the trap before mp_calculate_block
C10_Witness ==
  /\ halt \in {"BKPT:169", "BKPT:376"}
  /\ \E g \in {0, 1} : ~LengthsNotNegative(mr.gp[g])
  /\ obs.op = "plan" /\ ~obs.calc_called

\* the block runtime of an aline that is PLANNED and not yet run, with the
\* velocity it will be entered at: <<block runtime, entry velocity>>
PlannedBlocks ==
  IF mr.move_state # "OFF"
  THEN IF bufs[nx(mb.r)].buffer_state = MP_BUFFER_PLANNED
          /\ bufs[nx(mb.r)].move_type = "ALINE"
       THEN {<<mr.bk[mr.p], mr.bk[mr.r].exit_velocity>>} ELSE {}
  ELSE IF bufs[mb.r].buffer_state = MP_BUFFER_PLANNED /\ bufs[mb.r].move_type = "ALINE"
       THEN {<<mr.bk[mr.p], mr.entry_velocity>>} ELSE {}

\* the block runtime of the move that is executing, with its entry velocity
RunningBlocks ==
  IF mr.move_state # "OFF" THEN {<<mr.bk[mr.r], mr.entry_velocity>>} ELSE {}

ExecMoveOk == ExecMoveWith({"OK"})
QueueAline == QueueBlockOf({"ALINE"}, {48}, MaxMovesLong)

NextLong ==
  \/ ExecMoveOk
  \/ PlanMove
  \/ QueueAline
  \/ BackPlanExtend
  \/ BackPlanVelocity

SpecLong == Init /\ [][NextLong]_vars

\* the executor under every feedhold state: the canonical machine holds
\* cm.hold_state, the executor reads it on each call.  The runs queue alines
\* of full length, plan and execute them, enter a feedhold in any of its
\* states and leave it
FeedholdStates == {"SYNC", "DECEL_CONTINUE", "DECEL_TO_ZERO", "DECEL_END", "PENDING", "HOLD"}

HoldInState ==
  /\ halt = "none"
  /\ cm.motion_state = "RUN"
  /\ \E h \in FeedholdStates : cm' = [motion_state |-> "HOLD", hold_state |-> h]
  /\ UNCHANGED <<bufs, mb, mr, halt, obs, fd, pl, sp, hl, io>>

QueueAlineHold == QueueBlockOf({"ALINE"}, {48}, MaxMovesHold)

NextHold ==
  \/ ExecMoveOk
  \/ PlanMove
  \/ QueueAlineHold
  \/ HoldInState
  \/ mp_exit_hold_state

SpecHold == Init /\ [][NextHold]_vars

HoldSuccessors(h) ==
  IF h \in {"SYNC", "DECEL_CONTINUE"} THEN {"DECEL_CONTINUE", "DECEL_TO_ZERO", "DECEL_END"}
  ELSE IF h = "DECEL_TO_ZERO" THEN {"DECEL_TO_ZERO", "DECEL_END"}
  ELSE IF h = "DECEL_END" THEN {"PENDING"}
  ELSE IF h = "PENDING" THEN {"PENDING", "HOLD"}
  ELSE {"HOLD"}

\* C13: a call of mp_exec_aline in a feedhold returns and has moved
\* hold_state along the order SYNC, DECEL_CONTINUE, DECEL_TO_ZERO, DECEL_END,
\* PENDING, HOLD; a call that finds SYNC leaves a DECEL state
C13_HoldSequenceAdvances ==
  (obs.op = "exec" /\ obs.aline_ran /\ obs.hold_in # "NONE")
    => /\ halt = "none"
       /\ cm.motion_state = "HOLD" => cm.hold_state \in HoldSuccessors(obs.hold_in)

C15_EmptyNextBufferStillRuns ==
  (obs.op = "exec" /\ obs.buf_in = MP_BUFFER_PLANNED)
    => (obs.aline_ran /\ halt # "BKPT:543")

C17_MergeKeepsLength ==
  (obs.op = "exec" /\ obs.length_in # -1) =>
     BlockLength(mr.bk[mr.r]) = obs.length_in

\* C17: the merging of the new-move setup keeps the sum of the head, body
\* and tail length of the running block when its cruise_jerk is zero; a block
\* with a non-zero cruise_jerk keeps it too, unless its body is discarded,
\* which leaves it without a body and shorter
C17_MergeKeepsLengthUnlessRemnant ==
  (obs.op = "exec" /\ obs.length_in # -1) =>
     \/ BlockLength(mr.bk[mr.r]) = obs.length_in
     \/ /\ mr.bk[mr.r].cruise_jerk # 0
        /\ mr.bk[mr.r].body_length = 0
        /\ BlockLength(mr.bk[mr.r]) < obs.length_in

\* a setup has discarded the body of a block that is part of a head or tail
C17_Witness ==
  /\ obs.op = "exec" /\ obs.setup /\ obs.length_in > 0 /\ halt = "none"
  /\ mr.bk[mr.r].cruise_jerk # 0
  /\ BlockLength(mr.bk[mr.r]) < obs.length_in

\* C18: on the call that ends an aline move that met no hold, no
\* minimum-segment-time exit and no stepper failure, and whose block runtime
\* adds up to the length of the block, mr.position is the position at the
\* new-move setup plus the length of the block (mr.target)
C18_PositionReachesTarget ==
  (/\ obs.op = "exec" /\ obs.aline_ran /\ obs.ret = "OK" /\ halt = "none"
   /\ obs.hold_in = "NONE" /\ ~obs.min_time /\ ~obs.prep_failed
   /\ mr.move_state = "OFF"
   /\ BlockLength(mr.bk[mr.r]) = mr.target)
  => mr.position = mr.target

\* C19: a head, body or tail that was entered with a non-zero length and
\* is in flight has mr.segments = ceil(section time / NOM_SEGMENT) segments,
\* of which the emitted ones and the mr.segment_count to come add up to
\* mr.segments; the call that emits the last one (mr.segment_count reaches
\* zero) has emitted exactly mr.segments segments and leaves the section
C19_SegmentsPerSection ==
  /\ (halt = "none" /\ mr.move_state = "RUN"
        /\ mr.section_state \in {"1st_HALF", "2nd_HALF"}) =>
       /\ mr.segment_count > 0
       /\ obs.emitted + mr.segment_count = mr.segments
       /\ mr.segments * NOM_SEGMENT >= obs.section_time
       /\ (mr.segments - 1) * NOM_SEGMENT < obs.section_time
  /\ (obs.op = "exec" /\ obs.seg_last /\ ~obs.prep_failed /\ halt = "none") =>
       /\ mr.segment_count = 0
       /\ obs.emitted = mr.segments
       /\ mr.segments * NOM_SEGMENT >= obs.section_time
       /\ (mr.segments - 1) * NOM_SEGMENT < obs.section_time
       /\ mr.section_state \in {"NEW", "OFF"}

\* C20 as stated: for the running and for the planning group, when only
\* the exit velocity has risen and the new tail is not shorter than the
\* group's tail, _attempt_extension sets the exit velocity of the first block
\* back, clears velocity_changed and leaves the group as it was
C20_LongerTailNeverAccepted ==
  (obs.op = "plan") => (obs.inv_r # "accepted" /\ obs.inv_p # "accepted")

\* C20: when only the exit velocity has risen and the new tail is not shorter
\* than the group's tail, _attempt_extension sets the exit velocity of the
\* first block back, clears velocity_changed and leaves the group as it was
\* for the running group, and takes the new tail for the planning group
C20_LongerTailOnlyForPlanningGroup ==
  (obs.op = "plan") => (obs.inv_r # "accepted" /\ obs.inv_p # "reverted")

\* the planner has met the case for the running group and set the exit
\* velocity back
C20_Witness == obs.op = "plan" /\ obs.inv_r = "reverted" /\ halt = "none"

\* C21: after every length extension _attempt_extension accepts, with a tail
\* or cruising to the end, the group has the length of its first block's
\* group, is RAMPED, and its head, body and tail add up to that length
C21_ExtensionTakesNewLength == obs.op = "plan" => obs.ext_bad = "none"

\* C22: when _attempt_extension cannot apply a change to the running group
\* (the group is in its tail, or the new tail of a raised exit velocity is
\* not shorter) it returns with group_extended and velocity_changed false and
\* the group as it was; a length extension in the tail stops the machine, and
\* the planner does not go on to the running block
C22_RejectionClearsFlags ==
  (obs.op = "plan" /\ obs.rej # "none") =>
     /\ ~obs.rej_bad
     /\ obs.rej = "tail_ext" => (halt = "BKPT:76" /\ ~obs.ext_running /\ ~obs.calc_called)
     /\ obs.rej # "tail_ext" => ~obs.ext_running

\* the planner found a raised exit velocity while the running group was in
\* its tail, and planned on
C22_Witness == obs.op = "plan" /\ obs.rej = "tail" /\ halt = "none"

\* C23: a length extension of the running group found while its body runs
\* stops the planner at the trap of line 99 when it would shrink the body,
\* and only then
C23_TrapIffBodyShrinks ==
  (obs.op = "plan" /\ obs.body_ext # "none") =>
     (halt = "BKPT:99" <=> obs.body_ext = "shrinks")

\* --------------------------------------------- the forward differences
\* A head or tail of n >= 2 segments, taken by itself.  Velocities are kept
\* exactly, as integers in units of 1 / (640 n^5): the control points carry
\* a denominator of 20, h^5 one of n^5 and (h/2)^5 one of 32 n^5.

\* lines 1087-1100 and 1304-1315: twenty times the coefficients A .. E of
\* the quintic V(t) = A t^5 + B t^4 + C t^3 + D t^2 + E t + v_0
QuinticCoefficients(v_0, v_1, a_0, a_1, j_0, j_1, T) ==
  LET P_0 == 20 * v_0
      P_1 == 20 * v_0 + 4 * T * a_0
      P_2 == 20 * v_0 + 8 * T * a_0 + T * T * j_0
      P_3 == 20 * v_1 - 8 * T * a_1 + T * T * j_1
      P_4 == 20 * v_1 - 4 * T * a_1
      P_5 == 20 * v_1
  IN  [ A |-> 5 * (P_1 - P_4 + 2 * (P_3 - P_2)) + P_5 - P_0,
        B |-> 5 * (P_0 + P_4 - 4 * (P_3 + P_1) + 6 * P_2),
        C |-> 10 * (P_3 - P_0 + 3 * (P_1 - P_2)),
        D |-> 10 * (P_0 + P_2 - 2 * P_1),
        E |-> 5 * (P_1 - P_0) ]

\* lines 1101-1115: V(p / 2n) for a section of n segments, in units of
\* 1 / (640 n^5)
Quintic(f, p) ==
  LET c == QuinticCoefficients(f.v_0, f.v_1, f.a_0, f.a_1, f.j_0, f.j_1, f.T)
      n == f.segments
  IN  c.A * p * p * p * p * p
        + 2 * n * c.B * p * p * p * p
        + 4 * n * n * c.C * p * p * p
        + 8 * n * n * n * c.D * p * p
        + 16 * n * n * n * n * c.E * p
        + 640 * n * n * n * n * n * f.v_0

\* a mutation: the first velocity is the velocity at the start of the section
InitialVelocityAtStart(c, n, v_0) == 640 * n * n * n * n * n * v_0

\* lines 1350-1362: the initial velocity V(h/2)
InitialVelocity(c, n, v_0) ==
  c.A + 2 * n * c.B + 4 * n * n * c.C + 8 * n * n * n * c.D
      + 16 * n * n * n * n * c.E + 640 * n * n * n * n * n * v_0

\* lines 1297-1363: the registers after _init_forward_diffs(v_0, v_1, a_0,
\* a_1, j_0, j_1, T) for mr.segments = n, the section in its first half
_init_forward_diffs(v_0, v_1, a_0, a_1, j_0, j_1, T, n) ==
  LET c == QuinticCoefficients(v_0, v_1, a_0, a_1, j_0, j_1, T)
  IN  [ segments |-> n, segment_count |-> n, section_state |-> "1st_HALF",
        v_0 |-> v_0, v_1 |-> v_1, a_0 |-> a_0, a_1 |-> a_1,
        j_0 |-> j_0, j_1 |-> j_1, T |-> T,
        forward_diff_5 |-> 242 * c.A + 160 * n * c.B + 104 * n * n * c.C
                             + 64 * n * n * n * c.D + 32 * n * n * n * n * c.E,
        forward_diff_4 |-> 2640 * c.A + 928 * n * c.B + 288 * n * n * c.C
                             + 64 * n * n * n * c.D,
        forward_diff_3 |-> 8160 * c.A + 1536 * n * c.B + 192 * n * n * c.C,
        forward_diff_2 |-> 9600 * c.A + 768 * n * c.B,
        forward_diff_1 |-> 3840 * c.A,
        segment_velocity |-> InitialVelocity(c, n, v_0),
        first_velocity |-> InitialVelocity(c, n, v_0),
        sum_5 |-> 0, emitted |-> 0 ]

\* a mutation: forward_diff_4 is not advanced
AdvanceDiffsKeep4(f) ==
  [f EXCEPT !.forward_diff_5 = @ + f.forward_diff_4,
            !.forward_diff_3 = @ + f.forward_diff_2,
            !.forward_diff_2 = @ + f.forward_diff_1]

\* lines 1422-1425 and 1556-1559: the registers after a segment that is not
\* the last one; each line reads the register the line after it writes
AdvanceDiffs(f) ==
  [f EXCEPT !.forward_diff_5 = @ + f.forward_diff_4,
            !.forward_diff_4 = @ + f.forward_diff_3,
            !.forward_diff_3 = @ + f.forward_diff_2,
            !.forward_diff_2 = @ + f.forward_diff_1]

\* the inputs of a forward-differenced section
DiffInputs ==
  { _init_forward_diffs(v_0, v_1, a_0, a_1, j_0, j_1, T, n) :
      v_0 \in Velocities, v_1 \in Velocities,
      a_0 \in {0, 1}, a_1 \in {0, 1}, j_0 \in {0, 1}, j_1 \in {0, 1},
      T \in 1 .. MaxTime, n \in 2 .. MaxSegments }

InitDiffs == fd \in DiffInputs /\ pl = NoPlanner /\ sp = NoSteps /\ hl = NoHandlers /\ io = NoInputs /\ InitMachine

\* lines 1401-1409 and 1538-1551: the segment of the first half runs at the
\* initial velocity
SegmentFirstHalf ==
  /\ fd.section_state = "1st_HALF"
  /\ fd' = [fd EXCEPT !.segment_count = @ - 1,
                      !.emitted = @ + 1,
                      !.section_state = "2nd_HALF"]
  /\ UNCHANGED <<bufs, mb, mr, cm, halt, obs, pl, sp, hl, io>>

\* lines 1410-1427 and 1552-1561: a segment of the second half: the
\* velocity takes forward_diff_5, the segment runs, and the registers are
\* advanced unless it was the last one
SegmentSecondHalf ==
  /\ fd.section_state = "2nd_HALF"
  /\ LET f == [fd EXCEPT !.segment_velocity = @ + fd.forward_diff_5,
                         !.sum_5 = @ + fd.forward_diff_5,
                         !.segment_count = @ - 1,
                         !.emitted = @ + 1]
     IN  fd' = IF f.segment_count = 0
               THEN [f EXCEPT !.section_state = "OFF"]
               ELSE AdvanceDiffs(f)
  /\ UNCHANGED <<bufs, mb, mr, cm, halt, obs, pl, sp, hl, io>>

NextDiffs == SegmentFirstHalf \/ SegmentSecondHalf
SpecDiffs == InitDiffs /\ [][NextDiffs]_vars

\* C24: in a head or tail of n >= 2 segments the velocity of the k-th
\* segment (k = 0 .. n-1) is the quintic at the middle of the segment,
\* t = (2k+1)/(2n); the first segment runs at V(h/2)
C24_SegmentVelocityIsMidpoint ==
  fd.emitted > 0 => fd.segment_velocity = Quintic(fd, 2 * (fd.emitted - 1) + 1)

\* a section of six segments with a velocity change, an entry acceleration
\* and an exit jerk has emitted its last segment
C24_Witness ==
  /\ fd.segments = 6 /\ fd.emitted = 6 /\ fd.section_state = "OFF"
  /\ fd.v_0 # fd.v_1 /\ fd.a_0 # 0 /\ fd.j_1 # 0

\* C25 as stated: after the last segment of a section of n segments from v_0
\* to v_1 the segment velocity is v_1
C25_FinalVelocityIsExit ==
  (fd.emitted > 0 /\ fd.emitted = fd.segments) =>
     fd.segment_velocity
        = 640 * fd.segments * fd.segments * fd.segments * fd.segments * fd.segments * fd.v_1

\* C25: the quintic ends at v_1 (V(1) = v_1), but after the last segment of
\* a section of n segments the segment velocity is the first velocity V(h/2)
\* plus the n - 1 values of forward_diff_5 that were added, which is the
\* quintic at the middle of the last segment, V(1 - h/2)
C25_FinalVelocityIsLastMidpoint ==
  (fd.emitted > 0 /\ fd.emitted = fd.segments) =>
     /\ Quintic(fd, 2 * fd.segments)
          = 640 * fd.segments * fd.segments * fd.segments * fd.segments * fd.segments * fd.v_1
     /\ fd.segment_velocity = fd.first_velocity + fd.sum_5
     /\ fd.first_velocity = Quintic(fd, 1)
     /\ fd.segment_velocity = Quintic(fd, 2 * fd.segments - 1)

\* a section from 0 to VMAX has emitted its last segment below VMAX
C25_Witness ==
  /\ fd.emitted = fd.segments /\ fd.segments > 2 /\ fd.section_state = "OFF"
  /\ fd.v_0 = 0 /\ fd.v_1 = VMAX
  /\ fd.segment_velocity
       < 640 * fd.segments * fd.segments * fd.segments * fd.segments * fd.segments * fd.v_1

\* ---- mp_plan_move preempted by the executor ----

\* line 186: the planner takes the run buffer; NULL is a no-op
PlanTakeRunBuffer ==
  /\ pl.pc = "idle"
  /\ pl.state[pl.run] # MP_BUFFER_EMPTY
  /\ pl' = [pl EXCEPT !.pc = "319", !.bf = pl.run, !.passed = <<>>]
  /\ UNCHANGED <<bufs, mb, mr, cm, halt, obs, fd, sp, hl, io>>

\* lines 319-322, one statement at a time: block = mr.p; entry_velocity =
\* mr.entry_velocity; entry_acceleration = mr.entry_acceleration;
\* entry_jerk = mr.entry_jerk
ReadEntryWord ==
  /\ pl.pc \in {"319", "320", "321", "322"}
  /\ pl' = IF pl.pc = "319"
           THEN [pl EXCEPT !.pc = "320", !.block = pl.mr_p]
           ELSE IF pl.pc = "320"
           THEN [pl EXCEPT !.pc = "321",
                           !.entry_velocity = pl.mr_entry_velocity]
           ELSE IF pl.pc = "321"
           THEN [pl EXCEPT !.pc = "322",
                           !.entry_acceleration = pl.mr_entry_acceleration]
           ELSE [pl EXCEPT !.pc = "325", !.entry_jerk = pl.mr_entry_jerk]
  /\ UNCHANGED <<bufs, mb, mr, cm, halt, obs, fd, sp, hl, io>>

\* lines 325-351: a running buffer whose running group was extended keeps bf
\* and the entry words and takes block = mr.r; a finished planning group is
\* a no-op; otherwise the planner goes on to bf->nx.  The flags of lines
\* 240-306 are inputs here
SelectBuffer ==
  /\ pl.pc = "325"
  /\ \E extended \in BOOLEAN, done \in BOOLEAN :
       pl' = IF pl.state[pl.bf] # MP_BUFFER_RUNNING
             THEN [pl EXCEPT !.pc = "360"]
             ELSE IF extended THEN [pl EXCEPT !.pc = "360", !.block = pl.mr_r]
             ELSE IF done THEN [pl EXCEPT !.pc = "idle"]
             ELSE [pl EXCEPT !.pc = "353", !.bf = pl.bf + 1]
  /\ UNCHANGED <<bufs, mb, mr, cm, halt, obs, fd, sp, hl, io>>

\* lines 353-355, one statement at a time: entry_velocity =
\* mr.r->exit_velocity; entry_acceleration = mr.r->exit_acceleration;
\* entry_jerk = mr.r->exit_jerk
ReadExitWord ==
  /\ pl.pc \in {"353", "354", "355"}
  /\ pl' = IF pl.pc = "353"
           THEN [pl EXCEPT !.pc = "354", !.entry_velocity = pl.r]
           ELSE IF pl.pc = "354"
           THEN [pl EXCEPT !.pc = "355", !.entry_acceleration = pl.r]
           ELSE [pl EXCEPT !.pc = "360", !.entry_jerk = pl.r]
  /\ UNCHANGED <<bufs, mb, mr, cm, halt, obs, fd, sp, hl, io>>

\* a mutation: the buffer is PLANNED before mp_calculate_block has written
\* the block runtime
CalculateBlockPlannedFirst ==
  /\ pl.pc \in {"360", "480", "481", "496", "505"}
  /\ \E dispersing \in BOOLEAN :
       pl' = IF pl.pc = "360"
             THEN IF pl.state[pl.bf] \in {MP_BUFFER_EMPTY, MP_BUFFER_PLANNED}
                     \/ (~dispersing /\ pl.state[pl.bf] = MP_BUFFER_RUNNING)
                  THEN [pl EXCEPT !.pc = "idle"]
                  ELSE [pl EXCEPT !.pc = "480",
                          !.state[pl.bf] = MP_BUFFER_PLANNED,
                          !.passed = <<pl.entry_velocity, pl.entry_acceleration,
                                       pl.entry_jerk>>]
             ELSE IF pl.pc = "480"
             THEN [pl EXCEPT !.pc = "481",
                             !.bk[pl.block].buf = pl.bf,
                             !.bk[pl.block].part = TRUE]
             ELSE IF pl.pc = "481"
             THEN [pl EXCEPT !.pc = "496", !.bk[pl.block].part = FALSE]
             ELSE IF pl.pc = "496"
             THEN [pl EXCEPT !.pc = "505", !.bk[pl.block].planned = TRUE]
             ELSE [pl EXCEPT !.pc = "idle"]
  /\ UNCHANGED <<bufs, mb, mr, cm, halt, obs, fd, sp, hl, io>>

\* lines 360-512, one write at a time: an empty buffer and a planned buffer
\* are no-ops; otherwise the group is ramped and dispersed and
\* mp_calculate_block gets the three entry values (line 480) and writes the
\* block runtime, first a part of it, then the rest; block->planned is set
\* (line 496) and the buffer is PLANNED (line 505).  Whether the group has
\* something left to disperse (line 461) is an input
CalculateBlock ==
  /\ pl.pc \in {"360", "480", "481", "496", "505"}
  /\ \E dispersing \in BOOLEAN :
       pl' = IF pl.pc = "360"
             THEN IF pl.state[pl.bf] \in {MP_BUFFER_EMPTY, MP_BUFFER_PLANNED}
                     \/ (~dispersing /\ pl.state[pl.bf] = MP_BUFFER_RUNNING)
                  THEN [pl EXCEPT !.pc = "idle"]
                  ELSE [pl EXCEPT !.pc = "480",
                          !.passed = <<pl.entry_velocity, pl.entry_acceleration,
                                       pl.entry_jerk>>]
             ELSE IF pl.pc = "480"
             THEN [pl EXCEPT !.pc = "481",
                             !.bk[pl.block].buf = pl.bf,
                             !.bk[pl.block].part = TRUE]
             ELSE IF pl.pc = "481"
             THEN [pl EXCEPT !.pc = "496", !.bk[pl.block].part = FALSE]
             ELSE IF pl.pc = "496"
             THEN [pl EXCEPT !.pc = "505", !.bk[pl.block].planned = TRUE]
             ELSE [pl EXCEPT !.pc = "idle",
                             !.state[pl.bf] = MP_BUFFER_PLANNED]
  /\ UNCHANGED <<bufs, mb, mr, cm, halt, obs, fd, sp, hl, io>>

\* lines 534-558 and 698-716: the executor starts the planned run buffer:
\* the buffer is RUNNING, mr.r takes the block runtime mr.p, mr.p the other
\* one, and mr.p->planned is cleared
PreemptNewMove ==
  /\ ~pl.moving
  /\ pl.ends < MaxEnds
  /\ pl.state[pl.run] = MP_BUFFER_PLANNED
  /\ pl' = [pl EXCEPT !.moving = TRUE, !.r = @ + 1,
                      !.state[pl.run] = MP_BUFFER_RUNNING,
                      !.setup = [buffer |-> pl.run,
                                 buffer_state |-> pl.state[pl.run],
                                 buf |-> pl.bk[pl.mr_p].buf,
                                 part |-> pl.bk[pl.mr_p].part,
                                 planned |-> pl.bk[pl.mr_p].planned],
                      !.mr_r = pl.mr_p, !.mr_p = 1 - pl.mr_p,
                      !.bk[1 - pl.mr_p].planned = FALSE]
  /\ UNCHANGED <<bufs, mb, mr, cm, halt, obs, fd, sp, hl, io>>

\* lines 988-1008: the move ends: the three entry words take the exit
\* values of mr.r, and the buffer is freed (the feedhold that rewinds a
\* buffer to MOVE_NEW is behind the while(1) of line 878)
PreemptMoveEnd ==
  /\ pl.moving
  /\ pl' = [pl EXCEPT !.moving = FALSE, !.ends = @ + 1,
                      !.mr_entry_velocity = pl.ends + 1,
                      !.mr_entry_acceleration = pl.ends + 1,
                      !.mr_entry_jerk = pl.ends + 1,
                      !.state[pl.run] = MP_BUFFER_EMPTY,
                      !.run = @ + 1]
  /\ UNCHANGED <<bufs, mb, mr, cm, halt, obs, fd, sp, hl, io>>

NextSnapshot ==
  \/ PlanTakeRunBuffer
  \/ ReadEntryWord
  \/ SelectBuffer
  \/ ReadExitWord
  \/ CalculateBlock
  \/ PreemptNewMove
  \/ PreemptMoveEnd

SpecSnapshot == Init /\ [][NextSnapshot]_vars

\* C26: the three entry values that one mp_plan_move call passes to
\* mp_calculate_block carry the same write: all three the words of one move
\* end or all three the exit words of one block runtime
C26_EntrySnapshotConsistent ==
  pl.passed # <<>> => (pl.passed[1] = pl.passed[2] /\ pl.passed[2] = pl.passed[3])

\* ---- the step pipeline of the segment runner ----

\* a pipeline of one stage: commanded_steps takes the previous target
ShiftStepsOneStage(s, steps, encoder, status) ==
  [s EXCEPT !.commanded_steps = s.target_steps,
            !.position_steps = s.target_steps,
            !.encoder_steps = encoder,
            !.following_error =
               [i \in 1 .. MOTORS |-> encoder[i] - s.target_steps[i]],
            !.target_steps = steps,
            !.travel_steps =
               [i \in 1 .. MOTORS |-> steps[i] - s.target_steps[i]],
            !.en_read_encoder = encoder,
            !.calls = @ + 1,
            !.status = status,
            !.emitted = IF status = "OK" THEN @ + 1 ELSE @,
            !.fails = IF status = "OK" THEN @ ELSE @ + 1,
            !.computed = IF status = "OK"
                         THEN <<steps, s.computed[1], s.computed[2]>>
                         ELSE @]

\* lines 1611-1620 and 1629: the old target goes down the chain, the encoder
\* is read, the new target steps come from kinematics, the distances are
\* handed to st_prep_line
ShiftSteps(s, steps, encoder, status) ==
  [s EXCEPT !.commanded_steps = s.position_steps,
            !.position_steps = s.target_steps,
            !.encoder_steps = encoder,
            !.following_error =
               [i \in 1 .. MOTORS |-> encoder[i] - s.position_steps[i]],
            !.target_steps = steps,
            !.travel_steps =
               [i \in 1 .. MOTORS |-> steps[i] - s.target_steps[i]],
            !.en_read_encoder = encoder,
            !.calls = @ + 1,
            !.status = status,
            !.emitted = IF status = "OK" THEN @ + 1 ELSE @,
            !.fails = IF status = "OK" THEN @ ELSE @ + 1,
            !.computed = IF status = "OK"
                         THEN <<steps, s.computed[1], s.computed[2]>>
                         ELSE @]

\* lines 1585-1634: one call of the segment runner; the steps of the new
\* target, the encoder readings and the answer of st_prep_line are inputs
ExecSegmentSteps ==
  /\ sp.calls < MaxCalls
  /\ \E steps \in [1 .. MOTORS -> 0 .. MaxStep],
        encoder \in [1 .. MOTORS -> 0 .. MaxStep],
        status \in {"OK", "PREP_FAIL"} :
       /\ status = "PREP_FAIL" => sp.fails < MaxPrepFail
       /\ sp' = ShiftSteps(sp, steps, encoder, status)
  /\ UNCHANGED <<bufs, mb, mr, cm, halt, obs, fd, pl, hl, io>>

SpecSteps == Init /\ [][ExecSegmentSteps]_vars

C28_GroupSwapIffOff ==
  (obs.op = "exec" /\ obs.setup) =>
    /\ mr.r = obs.swap.p
    /\ mr.p = 1 - obs.swap.p
    /\ ~mr.bk[mr.p].planned
    /\ obs.swap.off =>
         /\ mr.r_group = obs.swap.p_group
         /\ mr.p_group = 1 - obs.swap.p_group
         /\ mr.group_entry_velocity = obs.swap.exit_velocity
    /\ ~obs.swap.off =>
         /\ mr.r_group = obs.swap.r_group
         /\ mr.p_group = obs.swap.p_group
         /\ mr.gp[mr.r_group].completed_group_body_length = obs.swap.body
         /\ mr.gp[mr.r_group].completed_group_head_length = obs.swap.head

\* a setup that found the running group at work and added a head to its
\* completed counters
C28_Witness ==
  /\ obs.op = "exec" /\ obs.setup /\ halt = "none"
  /\ ~obs.swap.off
  /\ obs.swap.head > 0
  /\ mr.gp[mr.r_group].completed_group_head_length = obs.swap.head

\* an mp_exec_aline call that dispatched to a section runner and returned
DispatchedCall == obs.op = "exec" /\ obs.aline_ran /\ halt = "none"

\* what C29 asks after a status other than STAT_EAGAIN
C29_MoveIsEnded ==
  /\ mr.move_state = "OFF"
  /\ mr.section_state = "OFF"
  /\ mb.run_time_remaining = 0
  /\ mr.gp[mr.r_group].group_state # GROUP_DONE
  /\ mr.entry_velocity = mr.bk[mr.r].exit_velocity
  /\ mr.entry_acceleration = mr.bk[mr.r].exit_acceleration
  /\ mr.entry_jerk = mr.bk[mr.r].exit_jerk

\* C29 as stated: after a dispatched call with a status other than
\* STAT_EAGAIN the move is ended (move_state and section_state OFF,
\* run_time_remaining zero, r_group not DONE, the entry values equal to the
\* exit values of the block runtime that ran); after a call that returns
\* STAT_EAGAIN none of these differs from what it was before the call
C29_EndedOrUntouchedByCall ==
  DispatchedCall =>
    IF obs.ret # "EAGAIN" THEN C29_MoveIsEnded ELSE ~obs.call_changed

\* C29, amended: after a status other than STAT_EAGAIN the move is ended;
\* on STAT_EAGAIN the status test of line 988 changes none of these: they
\* are as the section runner left them
C29_EndedOrLeftBySectionRunner ==
  DispatchedCall =>
    IF obs.ret # "EAGAIN" THEN C29_MoveIsEnded ELSE ~obs.end_changed

\* a move end that had time left to zero and fed a non-zero exit velocity
\* into the entry
C29_Witness ==
  /\ DispatchedCall /\ obs.ret = "OK" /\ obs.end_changed
  /\ obs.end_run_time > 0 /\ mb.run_time_remaining = 0
  /\ mr.entry_velocity > 0
  /\ mr.entry_velocity = mr.bk[mr.r].exit_velocity

C31_NearEndOfMove ==
  mr.section = "TAIL" \/ (mr.section = "BODY" /\ U32Less(mr.segment_count, 3))

C32_AcceptedChangeForcesReplan ==
  (obs.op = "plan" /\ obs.accept # "none") => obs.accept_bad = "none"

\* a change of the running group that found the block after the first block
\* PLANNED and the planning group at work
C32_Witness ==
  /\ obs.op = "plan" /\ obs.accept = "r_group" /\ obs.accept_next
  /\ obs.accept_bad = "none" /\ halt = "none"

\* ---- gpioDigitalInputHandlerList (gpio.h) ----

\* gpio.h lines 160-168: the loop of registerHandler from current_handler on
RECURSIVE InsertFrom(_, _, _)
InsertFrom(l, new_handler, current_handler) ==
  IF current_handler = 0 THEN l
  ELSE IF l.priority[new_handler] <= l.priority[current_handler]
  THEN [l EXCEPT !.next[new_handler] = l.next[current_handler],
                 !.next[current_handler] = new_handler]
  ELSE InsertFrom(l, new_handler, l.next[current_handler])

\* gpio.h lines 148-169
registerHandler(l, new_handler) ==
  IF l._first_handler = 0
  THEN [l EXCEPT !._first_handler = new_handler]
  ELSE IF l.priority[new_handler] > l.priority[l._first_handler]
  THEN [l EXCEPT !.next[new_handler] = l._first_handler,
                 !._first_handler = new_handler]
  ELSE InsertFrom(l, new_handler, l._first_handler)

\* gpio.h lines 189-198: the handlers call() invokes from current_handler
\* on, when the callback of handler stop returns true (0: none does)
RECURSIVE call(_, _, _)
call(l, current_handler, stop) ==
  IF current_handler = 0 THEN <<>>
  ELSE IF current_handler = stop THEN <<current_handler>>
  ELSE <<current_handler>> \o call(l, l.next[current_handler], stop)

\* a handler that was not registered before, of any priority, is registered
RegisterHandler ==
  /\ \E h \in (1 .. MaxHandlers) \ hl.registered, p \in 0 .. MaxPriority :
       hl' = registerHandler([hl EXCEPT !.priority[h] = p,
                                        !.registered = @ \cup {h},
                                        !.called = <<>>,
                                        !.op = "register"], h)
  /\ UNCHANGED <<bufs, mb, mr, cm, halt, obs, fd, pl, sp, io>>

\* an input event: call() runs the callbacks
CallHandlers ==
  /\ \E stop \in 0 .. MaxHandlers :
       hl' = [hl EXCEPT !.called = call(hl, hl._first_handler, stop),
                        !.op = "call"]
  /\ UNCHANGED <<bufs, mb, mr, cm, halt, obs, fd, pl, sp, io>>

SpecHandlers == Init /\ [][RegisterHandler \/ CallHandlers]_vars

\* C33: call() invokes the callbacks in non-increasing order of priority,
\* and every registered handler is in the list exactly once
C33_CalledByPriority ==
  /\ \A i, j \in 1 .. Len(hl.called) :
       i < j => hl.priority[hl.called[i]] >= hl.priority[hl.called[j]]
  /\ LET all == call(hl, hl._first_handler, 0)
     IN  /\ Len(all) = Cardinality(hl.registered)
         /\ {all[i] : i \in 1 .. Len(all)} = hl.registered

\* ---- gpioDigitalInputReader and gpioDigitalInputPin (gpio.h) ----

\* gpio.h lines 322-325: "new_pin = pin" assigns to the parameter; the pin
\* of reader n stays what it was
setPin(i, n, new_pin) == [i EXCEPT !.reader_pin[n] = i.reader_pin[n]]

\* gpio.h lines 456-469, for pin q
setExternalNumber(i, q, e) ==
  IF e = i.proxy_pin_number[q] THEN i
  ELSE LET cleared == IF i.proxy_pin_number[q] > 0
                      THEN setPin(i, i.proxy_pin_number[q], 0) ELSE i
           numbered == [cleared EXCEPT !.proxy_pin_number[q] = e]
       IN  IF e > 0 THEN setPin(numbered, e, q) ELSE numbered

\* a pin is given an external number, 0 for none
SetExternalNumber ==
  /\ \E q \in 1 .. MaxPins, e \in 0 .. READERS :
       io' = [setExternalNumber(io, q, e) EXCEPT
                 !.last = [pin |-> q, old |-> io.proxy_pin_number[q], e |-> e]]
  /\ UNCHANGED <<bufs, mb, mr, cm, halt, obs, fd, pl, sp, hl>>

\* the electrical state of an enabled, active-high pin changes
PinChanges ==
  /\ \E q \in 1 .. MaxPins : io' = [io EXCEPT !.level[q] = ~@]
  /\ UNCHANGED <<bufs, mb, mr, cm, halt, obs, fd, pl, sp, hl>>

SpecInputs == Init /\ [][SetExternalNumber \/ PinChanges]_vars

\* C34: after setExternalNumber(e) of a pin, with e in 1..14 and not the
\* number the pin had, reader in_r[e-1] is bound to the pin (getPin() is the
\* pin, getState() the state of the pin), and the reader of the number the
\* pin had before is bound to no pin
C34_ReaderBoundToPin ==
  (io.last.pin # 0 /\ io.last.e >= 1 /\ io.last.e # io.last.old) =>
    /\ io.reader_pin[io.last.e] = io.last.pin
    /\ (IF io.reader_pin[io.last.e] = 0 THEN FALSE
        ELSE io.level[io.reader_pin[io.last.e]]) = io.level[io.last.pin]
    /\ io.last.old > 0 => io.reader_pin[io.last.old] = 0

\* ------------------------------------------- the breakpoint of line 543 passed
\* mp_exec_move with the breakpoint of line 543 resumed: a PLANNED aline
\* whose next buffer is EMPTY is reported and started
ExecMoveResumed ==
  /\ halt = "none"
  /\ mr.segment_count >= 0
  /\ \E d \in 0 .. MaxDrift :
       Install(mp_exec_move(NewCall(Machine, "exec"),
                            [status |-> "OK", drift |-> d, resumed |-> TRUE]))

NextResumed ==
  \/ ExecMoveResumed
  \/ PlanMove
  \/ QueueBlock
  \/ BackPlanExtend
  \/ BackPlanVelocity

SpecResumed == Init /\ [][NextResumed]_vars

C36_PromotedOnce == obs.promotions <= 1

\* C37: a call that entered _exec_aline_segment found mr.segment_count at
\* least 1: the count it left is not below zero (a count below zero stands
\* for the wrapped unsigned value)
C37_SegmentCountAtLeastOne ==
  (obs.op = "exec" /\ obs.prep_calls > 0) => mr.segment_count >= 0

\* C38: under every preemption of mp_plan_move by the executor, a new-move
\* setup starts a PLANNED buffer and takes over a block runtime that
\* mp_calculate_block is not in the middle of writing; and the planner makes
\* a PREPPED buffer PLANNED only at line 505, as the last write of the call,
\* when the block runtime it wrote for that buffer is whole and
\* block->planned is set
C38_PlannedIsLastWrite ==
  /\ [](pl.setup.buffer # 0 =>
          (pl.setup.buffer_state = MP_BUFFER_PLANNED /\ ~pl.setup.part))
  /\ [][(pl.state[pl.bf] = MP_BUFFER_PREPPED
           /\ pl'.state[pl.bf] = MP_BUFFER_PLANNED)
          => /\ pl.pc = "505" /\ pl'.pc = "idle"
             /\ ~pl.bk[pl.block].part /\ pl.bk[pl.block].planned
             /\ pl.bk[pl.block].buf = pl.bf
             /\ pl'.bk = pl.bk]_vars

\* the second buffer was started from PLANNED, with its own plan, while the
\* planner was writing the plan of the third
C38_Witness ==
  /\ pl.setup.buffer_state = MP_BUFFER_PLANNED /\ pl.setup.buffer = 2
  /\ pl.setup.buf = 2 /\ ~pl.setup.part /\ pl.setup.planned
  /\ pl.pc = "481" /\ pl.bf = 3

\* the planner and the executor with no feedhold, no group extension and no
\* st_prep_line failure
NextPlain ==
  \/ ExecMoveOk
  \/ PlanMove
  \/ QueueBlock
  \/ BackPlanVelocity

SpecPlain == Init /\ [][NextPlain]_vars

\* C39: with no feedhold, no group extension and no st_prep_line failure,
\* every call of mp_exec_aline on a promoted block returns STAT_EAGAIN or
\* STAT_OK, the block takes at most one call more than the segments of its
\* head, body and tail, and the call that reaches that number returns
\* STAT_OK and frees the buffer
C39_PromotedBlockCompletes ==
  (obs.op = "exec" /\ obs.aline_ran) =>
     /\ halt = "none"
     /\ obs.ret \in {"OK", "EAGAIN"}
     /\ obs.calls <= obs.budget + 1
     /\ (obs.calls = obs.budget + 1 => (obs.ret = "OK" /\ obs.freed))

\* C40: after the call of mp_exec_aline that set up a new move, every
\* section of mr.r that has length has a time of at least MIN_SEGMENT_TIME,
\* every section without length has no time, and the call did not leave a
\* section for its segment time
C40_SectionTimesAfterSetup ==
  (obs.op = "exec" /\ obs.setup /\ halt = "none") =>
     /\ (mr.bk[mr.r].head_length # 0 => mr.bk[mr.r].head_time >= MIN_SEGMENT_TIME)
     /\ (mr.bk[mr.r].body_length # 0 => mr.bk[mr.r].body_time >= MIN_SEGMENT_TIME)
     /\ (mr.bk[mr.r].tail_length # 0 => mr.bk[mr.r].tail_time >= MIN_SEGMENT_TIME)
     /\ (mr.bk[mr.r].head_length = 0 => mr.bk[mr.r].head_time = 0)
     /\ (mr.bk[mr.r].body_length = 0 => mr.bk[mr.r].body_time = 0)
     /\ (mr.bk[mr.r].tail_length = 0 => mr.bk[mr.r].tail_time = 0)
     /\ ~obs.min_time
====
